---- MODULE Spec2Model ----
(***************************************************************************)
(* Wrist-worn health monitor (Myosa_3).                                    *)
(*                                                                         *)
(* Firebase firmware variant (src/unnamed/part_000, lines 1242-1925): the  *)
(* loop() polls the remote /StepDetect flag, reads one sample, runs the    *)
(* step, seizure and fall detectors and refreshes the display.             *)
(* EEPROM-logging variant (src/unnamed/part_000, lines 1926-2193): the     *)
(* gait tracker detectSteps with its 20-slot circular cadence buffer.      *)
(*                                                                         *)
(* Numbers: accelerations are fixed-point milli-g integers (1000 = 1 g),   *)
(* magnitudes are compared through their squares (sqrt is monotone), and   *)
(* millis() is an integer number of milliseconds.  The time the code       *)
(* itself takes is taken as 0 ms; only delay() calls advance the clock,    *)
(* plus an optional per-iteration overhead drawn from LoopOverhead.        *)
(***************************************************************************)
EXTENDS Integers, Sequences, FiniteSets, TLC

VARIABLES
    now,                 \* millis() at the start of the next loop() iteration
    sendDataPrevMillis,  \* time of the last remote poll (0 = never)
    step_detect,         \* local copy of the remote /StepDetect flag
    remoteStepCount,     \* last value written to the remote /stepCount
    filtered,            \* filteredAx, filteredAy, filteredAz (milli-g)
    step,                \* stepCount, step_L_peak_achieved, step_H_peak_achieved
    seizure,             \* seizure detector globals
    fall,                \* fall detector globals
    currentMode,         \* SystemMode
    lastDisplayUpdate,
    alertStartTime,
    ev,                  \* history: what the last loop() iteration did (t0, t = millis()
                         \* read by the seizure and by the fall detector)
    obs,                 \* history: free-fall / impact samples seen since the last fall reset
    seqIdx,              \* scenario: index of the next sample of FallSequence
    fallAlerts,          \* scenario: number of triggerFallAlert invocations
    resetRun,            \* reset scenario: consecutive reset calls and the state after the first
    gaitNow,             \* EEPROM variant: millis() at the next detectSteps call
    gait,                \* EEPROM variant: gait tracking globals and statics
    boot,                \* setup(): where it stands, what it drew, what it found
    findme,              \* the remote /FindMy flag, the dashboard button and the device's handler
    stillRun,            \* history: consecutive samples that incremented the stillness counter
    script,              \* environment: the episode of samples being played and the position in it
    ref,                 \* history: the fall detector run on the same samples by a loop whose seizure alert never sounds
    store,               \* persisted daily record (EEPROM) and the daily counters in memory
    elog,                \* event log in EEPROM, logIndex, and (history) every event logged since boot
    burstRun,            \* history: consecutive samples above the seizure threshold, up to SEIZURE_BURST_COUNT
    old,                 \* Old_reference firmware: clock and seizure detector
    ee,                  \* EEPROM-logging firmware: clock, seizure detector, fall detector
    eh,                  \* history of the duration-gated firmwares: what the last iteration did, runs of samples
    pedo,                \* comprehensive firmware: clock, step detector and (history) the last step and the dip since
    gest,                \* comprehensive firmware: clock, gesture buffer and what the last pattern check did
    dash,                \* dashboard: selected session, refresh timers, reads in flight, what is displayed
    cfall,               \* comprehensive firmware: clock, fall detector and (history) the samples since the free-fall flag was set
    app                  \* companion app: dashboard state of _DeviceDashboardState and (history) what the last packet did

fbVars == <<now, sendDataPrevMillis, step_detect, remoteStepCount, filtered, step,
            seizure, fall, currentMode, lastDisplayUpdate, alertStartTime, ev, obs>>
seqVars == <<seqIdx, fallAlerts>>
resetVars == <<resetRun>>
gaitVars == <<gaitNow, gait>>
bootVars == <<boot>>
findVars == <<findme>>
stillVars == <<stillRun>>
envVars == <<script>>
refVars == <<ref>>
storeVars == <<store>>
logVars == <<elog>>
burstVars == <<burstRun>>
oldVars == <<old>>
eeVars == <<ee>>
ehVars == <<eh>>
pedoVars == <<pedo>>
gestVars == <<gest>>
dashVars == <<dash>>
cfallVars == <<cfall>>
appVars == <<app>>
vars == <<fbVars, seqVars, resetVars, gaitVars, bootVars, findVars, stillVars, envVars, refVars, storeVars, logVars, burstVars, oldVars, eeVars, ehVars, pedoVars, gestVars, dashVars, cfallVars, appVars>>

----------------------------------------------------------------------------
(* Bounds of the model *)

\* the fall scenario is explored for MaxFallTicks loop periods of 20 ms
\* (a free fall times out 1300 ms after it started)
MaxFallTicks == 68
\* the seizure scenario is explored for MaxSeizureTicks loop periods
\* (the inactivity timeout is 1000 ms; three bursts and then the timeout fit)
MaxSeizureTicks == 54
\* the step scenario is explored for MaxStepTicks loop periods
\* (the remote flag is polled every 15000 ms)
MaxStepTicks == 760
\* stepCount is explored up to this value
MaxStepCount == 6
\* detectSteps is explored for this many calls
MaxGaitCalls == 11
\* setup() waits for the Wi-Fi at most MaxWifiWaits times, and the loop is
\* then explored for MaxBootTicks loop periods
MaxWifiWaits == 2
MaxBootTicks == 5
\* the display scenario is explored for MaxDisplayTicks loop periods, with at
\* most MaxEpisodes episodes that start EpisodeGrid loop periods apart
MaxDisplayTicks == 1100
MaxEpisodes == 2
EpisodeGrid == 250
\* logEvent is called up to MaxLogCalls times, at most MaxFallEvents of them
\* for a fall
MaxLogCalls == 87
MaxFallEvents == 1
\* the independence scenario is explored for MaxIndepTicks loop periods
MaxIndepTicks == 300
\* the seizure scenario with the run of bursts is explored for MaxBurstTicks
\* loop periods
MaxBurstTicks == 40
\* Old_reference is explored for MaxOldTicks loop periods of 100 ms, the
\* EEPROM-logging seizure scenario for MaxEeSeizureTicks periods of 20 ms,
\* with at most MaxPingFails failed pings and MaxPresses button presses
MaxOldTicks == 14
MaxEeSeizureTicks == 48
MaxPingFails == 2
MaxPresses == 1
\* the comprehensive step detector is explored for MaxDailyTicks loop periods
\* of 100 ms and up to MaxDailySteps steps
MaxDailyTicks == 30
MaxDailySteps == 4
\* the EEPROM-logging fall scenario is explored for MaxEeFallTicks loop
\* periods (the immobility check comes 5000 ms after the free fall)
MaxEeFallTicks == 254
\* the gesture scenario is explored for MaxGestureTicks loop periods of 100 ms
MaxGestureTicks == 24
\* the dashboard is explored for MaxSessionClicks clicks and MaxDashReads
\* reads, at most MaxInFlight of them in flight
MaxSessionClicks == 3
MaxDashReads == 6
MaxInFlight == 2
\* the disconnected-sensor scenario is explored for MaxEeGapTicks loop periods,
\* the sensor staying away for EeGapTicks of them
MaxEeGapTicks == 262
EeGapTicks == 252
\* the companion app receives up to MaxPackets packets
MaxPackets == 3
\* the comprehensive fall detector is explored for MaxDailyFallTicks loop
\* periods of 100 ms
MaxDailyFallTicks == 40
\* the stillness scenario is explored for MaxStillTicks loop periods (a fall
\* fires at the earliest 32 periods after the free fall)
MaxStillTicks == 36
\* the poll scenario is explored for MaxPollTicks loop periods (two poll
\* periods), with Firebase.ready() false on at most MaxNotReady due polls
MaxPollTicks == 1510
MaxNotReady == 2
\* the loop with failing sensor reads is explored for MaxSensorTicks loop periods
MaxSensorTicks == 8
\* the dashboard's buzzer button is clicked at most this many times
MaxFindClicks == 40

----------------------------------------------------------------------------
(* Program constants, Firebase variant (accelerations in milli-g) *)

SEIZURE_THRESHOLD == 2700
SEIZURE_DURATION == 700
SEIZURE_BURST_COUNT == 15
SEIZURE_RESET_TIME == 1000

FALL_FREE_FALL_THRESHOLD == 563
FALL_IMPACT_THRESHOLD == 1500
FALL_STILLNESS_TIME == 200
FALL_STILLNESS_THRESHOLD == 1100
FALL_STILLNESS_THRESHOLD_min == 900

threshold_step == 850
StanceLow == 950
StanceHigh == 1050

reset_time_thresholds == 200
FallTimeout == 1300
FallConfirmCount == 10

PollPeriod == 15000
DisplayPeriod == 20
LoopDelay == 20
SeizureAlertHold == 10000
FallAlertHold == 15000

\* millis() when loop() first runs: the delays of setup()
\* (showStartupScreen 3000, MPU6050 configuration 100, calibration 1000)
StartTime == 3000 + 100 + 1000

\* extra milliseconds one loop() iteration may take on top of delay(20)
LoopOverhead == {0}

----------------------------------------------------------------------------
(* Signal conditioner *)

\* readMPU6050: the 16-bit register pair, or 0 when fewer than 2 bytes arrived
readMPU6050(reg, ok) == IF ok THEN reg ELSE 0

\* the three reads of readSensorData: ACCEL_XOUT, ACCEL_YOUT, ACCEL_ZOUT
ReadAccel(regs, oks) == [i \in 1..3 |-> readMPU6050(regs[i], oks[i])]
AllOk == <<TRUE, TRUE, TRUE>>
NoneOk == <<FALSE, FALSE, FALSE>>

\* raw / 16384.0 in milli-g
ToG(raw) == (raw * 1000) \div 16384

\* readSensorData: the Kalman filter is commented out, the converted raw
\* values are passed through
readSensorData(raw) == [ax |-> ToG(raw[1]), ay |-> ToG(raw[2]), az |-> ToG(raw[3])]

\* accelMagnitude squared: filteredAx^2 + filteredAy^2 + filteredAz^2
AccelMagnitudeSq(f) == f.ax * f.ax + f.ay * f.ay + f.az * f.az

\* accelMagnitude < thr and accelMagnitude > thr, thr in milli-g
MagBelow(m2, thr) == m2 < thr * thr
MagAbove(m2, thr) == m2 > thr * thr

----------------------------------------------------------------------------
(* Step detector *)

InitStep == [stepCount |-> 0, step_L_peak_achieved |-> FALSE, step_H_peak_achieved |-> FALSE]

\* faulty variant: the latch is not cleared when a step is counted
processStepCountingKeepsLatch(s, m2) ==
    LET s1 == IF MagBelow(m2, threshold_step)
              THEN [s EXCEPT !.step_L_peak_achieved = TRUE] ELSE s
    IN  IF MagAbove(m2, StanceLow) /\ MagBelow(m2, StanceHigh) /\ s1.step_L_peak_achieved
        THEN [s1 EXCEPT !.stepCount = @ + 2, !.step_H_peak_achieved = FALSE]
        ELSE s1

\* faulty variant: stepCount =- 2 in place of stepCount += 2
processStepCountingAssignMinus(s, m2) ==
    LET s1 == IF MagBelow(m2, threshold_step)
              THEN [s EXCEPT !.step_L_peak_achieved = TRUE] ELSE s
    IN  IF MagAbove(m2, StanceLow) /\ MagBelow(m2, StanceHigh) /\ s1.step_L_peak_achieved
        THEN [s1 EXCEPT !.stepCount = -2,
                        !.step_H_peak_achieved = FALSE,
                        !.step_L_peak_achieved = FALSE]
        ELSE s1

processStepCounting(s, m2) ==
    LET s1 == IF MagBelow(m2, threshold_step)
              THEN [s EXCEPT !.step_L_peak_achieved = TRUE] ELSE s
    IN  IF MagAbove(m2, StanceLow) /\ MagBelow(m2, StanceHigh) /\ s1.step_L_peak_achieved
        THEN [s1 EXCEPT !.stepCount = @ + 2,
                        !.step_H_peak_achieved = FALSE,
                        !.step_L_peak_achieved = FALSE]
        ELSE s1

\* faulty variant: the disabled branch clears the latch but not the count
LoopStepCountingNoZero(s, sd, m2) ==
    LET s1 == IF sd THEN processStepCounting(s, m2)
              ELSE [s EXCEPT !.step_L_peak_achieved = FALSE]
    IN  processStepCounting(s1, m2)

\* loop(), lines 1494-1500: the enabled/disabled branch followed by the
\* unconditional second call
LoopStepCounting(s, sd, m2) ==
    LET s1 == IF sd THEN processStepCounting(s, m2)
              ELSE [s EXCEPT !.stepCount = 0, !.step_L_peak_achieved = FALSE]
    IN  processStepCounting(s1, m2)

----------------------------------------------------------------------------
(* Seizure detector *)

InitSeizure == [seizure_start_time |-> 0, seizure_detected |-> FALSE,
                seizure_burst_count |-> 0, last_seizure_activity |-> 0]

\* faulty variant: last_seizure_activity is not cleared
resetSeizureDetectionKeepsActivity(s) ==
    [s EXCEPT !.seizure_start_time = 0, !.seizure_detected = FALSE,
              !.seizure_burst_count = 0]

resetSeizureDetection(s) ==
    [s EXCEPT !.seizure_start_time = 0, !.seizure_detected = FALSE,
              !.seizure_burst_count = 0, !.last_seizure_activity = 0]

\* faulty variant: the gate without its duration test
SeizureFireCondCountOnly(s, t) ==
    s.seizure_burst_count >= SEIZURE_BURST_COUNT

\* the gate of line 1598
SeizureFireCond(s, t) ==
    /\ (t - s.seizure_start_time) >= SEIZURE_DURATION
    /\ s.seizure_burst_count >= SEIZURE_BURST_COUNT

\* faulty variant: the reset time taken as seconds
SeizureTimedOutSeconds(s, t) ==
    s.seizure_detected /\ (t - s.last_seizure_activity) > SEIZURE_RESET_TIME * 1000

\* the test of line 1606
SeizureTimedOut(s, t) ==
    s.seizure_detected /\ (t - s.last_seizure_activity) > SEIZURE_RESET_TIME

\* result: st = state after the call, fired = triggerSeizureAlert was invoked,
\* reset = why resetSeizureDetection ran, elapsed/count = the gate's operands
\* at the moment of firing
processSeizureDetection(s, m2, t) ==
    IF MagAbove(m2, SEIZURE_THRESHOLD)
    THEN LET s1 == [s EXCEPT !.last_seizure_activity = t]
         IN  IF ~s1.seizure_detected
             THEN [st |-> [s1 EXCEPT !.seizure_start_time = t,
                                     !.seizure_detected = TRUE,
                                     !.seizure_burst_count = 1],
                   fired |-> FALSE, reset |-> "none", elapsed |-> 0, count |-> 0]
             ELSE LET s2 == [s1 EXCEPT !.seizure_burst_count = @ + 1]
                  IN  IF SeizureFireCond(s2, t)
                      THEN [st |-> [resetSeizureDetection(s2) EXCEPT !.seizure_burst_count = 1],
                            fired |-> TRUE, reset |-> "fired",
                            elapsed |-> t - s2.seizure_start_time,
                            count |-> s2.seizure_burst_count]
                      ELSE [st |-> s2, fired |-> FALSE, reset |-> "none",
                            elapsed |-> 0, count |-> 0]
    ELSE IF SeizureTimedOut(s, t)
         THEN [st |-> [resetSeizureDetection(s) EXCEPT !.seizure_burst_count = 1],
               fired |-> FALSE, reset |-> "timeout", elapsed |-> 0, count |-> 0]
         ELSE [st |-> s, fired |-> FALSE, reset |-> "none", elapsed |-> 0, count |-> 0]

----------------------------------------------------------------------------
(* Fall detector *)

InitFall == [fall_free_fall_detected |-> FALSE, fall_impact_detected |-> FALSE,
             fall_stillness_comfirmed |-> 0, fall_orientation_changed |-> FALSE,
             fall_detection_start |-> 0, fall_stillness_start |-> 0,
             fall_detected |-> FALSE]

\* faulty variant: the stillness counter is not cleared
resetFallDetectionKeepsCount(f) ==
    [f EXCEPT !.fall_free_fall_detected = FALSE, !.fall_impact_detected = FALSE,
              !.fall_orientation_changed = FALSE, !.fall_detection_start = 0,
              !.fall_stillness_start = 0, !.fall_detected = FALSE]

\* faulty variant: fall_detection_start is assigned from fall_stillness_start
resetFallDetectionShifted(f) ==
    [f EXCEPT !.fall_free_fall_detected = FALSE, !.fall_impact_detected = FALSE,
              !.fall_orientation_changed = FALSE,
              !.fall_detection_start = f.fall_stillness_start,
              !.fall_stillness_start = 0, !.fall_detected = FALSE,
              !.fall_stillness_comfirmed = 0]

resetFallDetection(f) ==
    [f EXCEPT !.fall_free_fall_detected = FALSE, !.fall_impact_detected = FALSE,
              !.fall_orientation_changed = FALSE, !.fall_detection_start = 0,
              !.fall_stillness_start = 0, !.fall_detected = FALSE,
              !.fall_stillness_comfirmed = 0]

\* faulty variant: the gate with || in place of &&
FallFireCondAny(f) ==
    \/ f.fall_free_fall_detected
    \/ f.fall_impact_detected
    \/ f.fall_stillness_comfirmed > FallConfirmCount

FallFireCondLate(f) ==
    /\ f.fall_free_fall_detected
    /\ f.fall_impact_detected
    /\ f.fall_stillness_comfirmed > FallConfirmCount + 1

\* the gate of line 1676
FallFireCond(f) ==
    /\ f.fall_free_fall_detected
    /\ f.fall_impact_detected
    /\ f.fall_stillness_comfirmed > FallConfirmCount

\* Phase 1: free fall
FallPhase1(f, m2, t) ==
    IF ~f.fall_free_fall_detected /\ MagBelow(m2, FALL_FREE_FALL_THRESHOLD)
    THEN [f EXCEPT !.fall_free_fall_detected = TRUE, !.fall_detection_start = t]
    ELSE f

\* Phase 2: impact after free fall, not before the settle time
FallPhase2(f, m2, t) ==
    IF /\ f.fall_free_fall_detected
       /\ ~f.fall_impact_detected
       /\ MagAbove(m2, FALL_IMPACT_THRESHOLD)
       /\ t - f.fall_detection_start >= reset_time_thresholds
    THEN [f EXCEPT !.fall_impact_detected = TRUE, !.fall_stillness_start = t]
    ELSE f

\* faulty variant: the stillness test without the enclosing impact test
FallStillnessSampleNoImpact(f, m2, t) ==
    /\ MagBelow(m2, FALL_STILLNESS_THRESHOLD)
    /\ (t - f.fall_stillness_start) > FALL_STILLNESS_TIME
    /\ MagAbove(m2, FALL_STILLNESS_THRESHOLD_min)

\* Phase 4: a sample in the stillness band, late enough after the impact
FallStillnessSample(f, m2, t) ==
    /\ f.fall_impact_detected
    /\ MagBelow(m2, FALL_STILLNESS_THRESHOLD)
    /\ (t - f.fall_stillness_start) > FALL_STILLNESS_TIME
    /\ MagAbove(m2, FALL_STILLNESS_THRESHOLD_min)

FallPhase4(f, m2, t) ==
    IF FallStillnessSample(f, m2, t)
    THEN [f EXCEPT !.fall_stillness_comfirmed = @ + 1]
    ELSE f

\* triggerFallAlert, the part that touches the detector state
triggerFallAlert(f) == resetFallDetection([f EXCEPT !.fall_detected = TRUE])

\* faulty variant: an early impact does not abort
FallResetKindNoAbort(f, m2, t) ==
    IF f.fall_free_fall_detected /\ (t - f.fall_detection_start) < reset_time_thresholds
    THEN "none"
    ELSE IF t - f.fall_detection_start > FallTimeout THEN "timeout" ELSE "none"

\* faulty variant: no timeout
FallResetKindNoTimeout(f, m2, t) ==
    IF f.fall_free_fall_detected /\ (t - f.fall_detection_start) < reset_time_thresholds
    THEN IF MagAbove(m2, FALL_IMPACT_THRESHOLD) THEN "abort" ELSE "none"
    ELSE "none"

\* lines 1681-1688: abort on an early impact, or time out
FallResetKind(f, m2, t) ==
    IF f.fall_free_fall_detected /\ (t - f.fall_detection_start) < reset_time_thresholds
    THEN IF MagAbove(m2, FALL_IMPACT_THRESHOLD) THEN "abort" ELSE "none"
    ELSE IF t - f.fall_detection_start > FallTimeout THEN "timeout" ELSE "none"

\* result: st = state after the call, fired = triggerFallAlert was invoked,
\* reset = which reset ran last ("none" if none), stillInc = the stillness
\* counter was incremented
processFallDetection(f, m2, t) ==
    LET f1 == FallPhase1(f, m2, t)
        f2 == FallPhase2(f1, m2, t)
        f3 == FallPhase4(f2, m2, t)
        fire == FallFireCond(f3)
        f4 == IF fire THEN triggerFallAlert(f3) ELSE f3
        kind == FallResetKind(f4, m2, t)
        f5 == IF kind # "none" THEN resetFallDetection(f4) ELSE f4
    IN  [st |-> f5, fired |-> fire,
         reset |-> IF fire THEN "fired" ELSE kind,
         stillInc |-> FallStillnessSample(f2, m2, t)]

----------------------------------------------------------------------------
(* Alert dispatcher and display *)

\* buzzAlert(numBuzz, duration): blocks for numBuzz on/off pulses
buzzAlert(numBuzz, duration) == numBuzz * (duration + duration)

\* enum SystemMode
SystemMode == {"MODE_MONITORING", "MODE_STEP_COUNT", "MODE_SEIZURE_ALERT", "MODE_FALL_ALERT"}

\* faulty variant: the alert screens revert to the step-count screen
updateDisplayRevertsToStepCount(mode, alertStart, t) ==
    IF mode = "MODE_SEIZURE_ALERT" /\ t - alertStart > SeizureAlertHold THEN "MODE_STEP_COUNT"
    ELSE IF mode = "MODE_FALL_ALERT" /\ t - alertStart > FallAlertHold THEN "MODE_STEP_COUNT"
    ELSE mode

\* faulty variant: the fall screen has no auto-revert
updateDisplayNoFallRevert(mode, alertStart, t) ==
    IF mode = "MODE_SEIZURE_ALERT" /\ t - alertStart > SeizureAlertHold THEN "MODE_MONITORING"
    ELSE mode

\* faulty variant: the seizure screen is held for 1000 ms
updateDisplayShortHold(mode, alertStart, t) ==
    IF mode = "MODE_SEIZURE_ALERT" /\ t - alertStart > 1000 THEN "MODE_MONITORING"
    ELSE IF mode = "MODE_FALL_ALERT" /\ t - alertStart > FallAlertHold THEN "MODE_MONITORING"
    ELSE mode

\* updateDisplay: the auto-revert of the alert screens
updateDisplay(mode, alertStart, t) ==
    IF mode = "MODE_SEIZURE_ALERT" /\ t - alertStart > SeizureAlertHold THEN "MODE_MONITORING"
    ELSE IF mode = "MODE_FALL_ALERT" /\ t - alertStart > FallAlertHold THEN "MODE_MONITORING"
    ELSE mode

----------------------------------------------------------------------------
(* Telemetry poll *)

\* faulty variant: the poll is due at the period, not after it
PollDueAtPeriod(ready, t, prev) == ready /\ (t - prev >= PollPeriod \/ prev = 0)

\* line 1481: Firebase.ready() && (millis() - sendDataPrevMillis > 15000 ||
\* sendDataPrevMillis == 0)
PollDue(ready, t, prev) == ready /\ (t - prev > PollPeriod \/ prev = 0)

\* faulty variant: the count is written whatever the flag
PublishDueAlways(sd) == TRUE

\* lines 1486-1488: /stepCount is written when the flag just read is false
PublishDue(sd) == ~sd

----------------------------------------------------------------------------
(* History variables of the loop *)

NoEv == [tick |-> FALSE, t0 |-> 0, t |-> 0, polled |-> FALSE,
         pre_step_detect |-> FALSE, pre_stepCount |-> 0,
         seizureFired |-> FALSE, seizureReset |-> "none",
         seizureElapsed |-> 0, seizureCount |-> 0,
         fallFired |-> FALSE, fallReset |-> "none", stillInc |-> FALSE,
         ffAt |-> -1, impAt |-> -1, bursts |-> 0, burstAt |-> -1,
         readOk |-> TRUE, m2 |-> 0, pollAt |-> -1, prevPollAt |-> -1,
         notReady |-> 0, published |-> FALSE, dispAt |-> 0]

NoObs == [ff |-> -1, imp |-> -1, bursts |-> 0, burstAt |-> -1, lastBurstAt |-> -1]

\* the first free-fall sample since the last fall reset, and the first
\* impact sample after it
Observe(o, m2, t) ==
    LET o1 == IF o.ff = -1 /\ MagBelow(m2, FALL_FREE_FALL_THRESHOLD)
              THEN [o EXCEPT !.ff = t] ELSE o
    IN  IF o1.ff # -1 /\ o1.imp = -1 /\ MagAbove(m2, FALL_IMPACT_THRESHOLD)
        THEN [o1 EXCEPT !.imp = t] ELSE o1

\* the over-threshold samples since the last seizure reset, and the time of
\* the first of them
ObserveBurst(o, m2, t) ==
    IF MagAbove(m2, SEIZURE_THRESHOLD)
    THEN [o EXCEPT !.bursts = @ + 1, !.burstAt = IF o.bursts = 0 THEN t ELSE @,
                   !.lastBurstAt = t]
    ELSE o

\* the length of the current run of consecutive samples that incremented the
\* stillness counter, as it stands when the fire gate of the tick is evaluated
ObserveStill(run, inc) == IF inc THEN run + 1 ELSE 0

ForgetFall(o) == [o EXCEPT !.ff = -1, !.imp = -1]
ForgetBursts(o) == [o EXCEPT !.bursts = 0, !.burstAt = -1, !.lastBurstAt = -1]

----------------------------------------------------------------------------
(* loop(), Firebase variant *)

InitFb ==
    /\ now = StartTime
    /\ sendDataPrevMillis = 0
    /\ step_detect = FALSE
    /\ remoteStepCount = 0
    /\ filtered = [ax |-> 0, ay |-> 0, az |-> 0]
    /\ step = InitStep
    /\ seizure = InitSeizure
    /\ fall = InitFall
    /\ currentMode = "MODE_MONITORING"
    /\ lastDisplayUpdate = 0
    /\ alertStartTime = 0
    /\ ev = NoEv
    /\ obs = NoObs

InitSeq == seqIdx = 1 /\ fallAlerts = 0
NoResetRun == [who |-> "none", n |-> 0, dirty |-> FALSE,
               snapS |-> InitSeizure, snapF |-> InitFall]
InitReset == resetRun = NoResetRun
\* gait tracking globals and the statics of detectSteps; cadence is the
\* exact quotient num / den (0 / 1 before the first computation)
InitGaitState == [lastAccel |-> 0, stepCount |-> 0, lastStepTime |-> 0,
                  stepTimes |-> [i \in 0..19 |-> 0], stepBufferIndex |-> 0,
                  cadence |-> [num |-> 0, den |-> 1], calls |-> 0]
InitGait == gaitNow = 0 /\ gait = InitGaitState
\* setup() has run to its end: display and sensor found, Wi-Fi connected
Booted == [pc |-> "loop", displayOk |-> TRUE, mpuOk |-> TRUE, screen |-> "startup",
           wifiWaits |-> 0, loopAt |-> StartTime]
InitBooted == boot = Booted
\* /FindMy is false, the dashboard button shows "Buzzer OFF", the device is
\* not handling the flag
InitFindState == [FindMy |-> FALSE, buzzButton |-> FALSE, pc |-> "idle",
                  seen |-> 0, buzzes |-> 0, acks |-> 0, clicks |-> 0]
InitFind == findme = InitFindState
InitStill == stillRun = 0
\* at rest, no episode played yet
NoScript == [ep |-> "rest", pos |-> 1, started |-> 0]
InitEnv == script = NoScript
NoRef == [fall |-> InitFall, now |-> StartTime, fired |-> FALSE]
InitRef == ref = NoRef
ZeroActivity == [steps |-> 0, calories |-> 0, activeMinutes |-> 0, sedentaryMinutes |-> 0, totalDistance |-> 0]
ZeroSleep == [sleepStart |-> 0, sleepEnd |-> 0, sleepQuality |-> 0, wakeTimes |-> 0, isSleeping |-> FALSE]
NoStore == [eeprom |-> [activity |-> ZeroActivity, sleep |-> ZeroSleep],
            dailyActivity |-> ZeroActivity, sleepData |-> ZeroSleep, loaded |-> FALSE]
InitStore == store = NoStore
\* EEPROM bytes used by the log and the size of one EventLog record
\* (uint32_t, uint8_t padded to 4 bytes, float)
EventLogBytes == 512
SizeofEventLog == 12
LogCapacity == EventLogBytes \div SizeofEventLog
NoEvent == [timestamp |-> 0, eventType |-> 0]
NoLog == [slots |-> [i \in 0..(LogCapacity - 1) |-> NoEvent], logIndex |-> 0, hist |-> <<>>]
InitLog == elog = NoLog
InitBurst == burstRun = 0
NoOld == [now |-> StartTime, seizure_detected |-> FALSE, seizure_start_time |-> 0]
InitOld == old = NoOld
NoEe == [now |-> StartTime, seizureDetected |-> FALSE, seizureStartTime |-> 0,
         fallState |-> "NONE", fallStartTime |-> 0]
InitEe == ee = NoEe
NoEh == [prog |-> "eeprom", tick |-> FALSE, t0 |-> 0, sampled |-> FALSE, over |-> FALSE,
         fired |-> FALSE, runAt |-> -1, runFrom |-> -1, alert |-> "none",
         impactAt |-> -1, moved |-> FALSE, sinceImpact |-> 0, movedBefore |-> FALSE,
         presses |-> 0, pingFails |-> 0]
InitEh == eh = NoEh
\* the comprehensive firmware's loop starts after showStartupScreen's delay(3000)
DailyStart == 3000
NoPedo == [now |-> DailyStart, lastStepTime |-> 0, peakDetected |-> FALSE, steps |-> 0,
           stepped |-> FALSE, t0 |-> 0, lastAt |-> -1, dipped |-> FALSE,
           prevStepAt |-> -1, dippedBefore |-> FALSE]
InitPedo == pedo = NoPedo
NoGest == [now |-> DailyStart, gestureBuffer |-> [i \in 0..9 |-> 0], gestureIndex |-> 0,
           lastGestureTime |-> 0, checked |-> FALSE, emergency |-> FALSE, shake |-> FALSE]
InitGest == gest = NoGest
Sessions == {"Session_1", "Session_2"}
NoDash == [selectedSessionID |-> "null", sessionUpdateInterval |-> 0, timers |-> {},
           inflight |-> [x \in Sessions |-> 0], label |-> "null", chart |-> "null",
           clicks |-> 0, reads |-> 0, ticked |-> FALSE, tickRead |-> "null"]
InitDash == dash = NoDash
NoCFall == [now |-> DailyStart, freeFallDetected |-> FALSE, freeFallStart |-> 0,
            fired |-> FALSE, duration |-> 0, clean |-> FALSE, cleanBefore |-> FALSE]
InitCFall == cfall = NoCFall
AccelHistoryLen == 50
NoApp == [steps |-> 0, cadence |-> 0, lastAccel |-> 0, status |-> "Normal",
          accelHistory |-> [i \in 1..AccelHistoryLen |-> 0], events |-> <<>>,
          packets |-> 0, parts |-> <<>>, appended |-> 0, threw |-> FALSE]
InitApp == app = NoApp

\* one iteration of loop(): regs = the three accelerometer registers,
\* oks = which of the three reads delivered its 2 bytes,
\* ready = Firebase.ready(), remote = the value read from /StepDetect,
\* ovh = the iteration's overhead
LoopTick(regs, oks, ready, remote, ovh) ==
    LET t0 == now
        poll == PollDue(ready, t0, sendDataPrevMillis)
        sd == IF poll THEN remote ELSE step_detect
        publish == poll /\ PublishDue(sd)
        filt == readSensorData(ReadAccel(regs, oks))
        m2 == AccelMagnitudeSq(filt)
    IN  \E st \in {LoopStepCounting(step, sd, m2)}, sz \in {processSeizureDetection(seizure, m2, t0)} :
        \E t1 \in {t0 + (IF sz.fired THEN buzzAlert(5, 200) ELSE 0)} :
        \E fl \in {processFallDetection(fall, m2, t1)} :
        \E o1 \in {Observe(ObserveBurst(obs, m2, t0), m2, t1)} :
        LET t2 == t1 + (IF fl.fired THEN buzzAlert(3, 100) ELSE 0)
            mode1 == IF fl.fired THEN "MODE_FALL_ALERT"
                     ELSE IF sz.fired THEN "MODE_SEIZURE_ALERT" ELSE currentMode
            alert1 == IF fl.fired THEN t1 ELSE IF sz.fired THEN t0 ELSE alertStartTime
            disp == t2 - lastDisplayUpdate > DisplayPeriod
    IN  /\ st.stepCount <= MaxStepCount
        /\ sendDataPrevMillis' = IF poll THEN t0 ELSE sendDataPrevMillis
        /\ step_detect' = sd
        /\ remoteStepCount' = IF publish THEN step.stepCount ELSE remoteStepCount
        /\ filtered' = filt
        /\ step' = st
        /\ seizure' = sz.st
        /\ fall' = fl.st
        /\ currentMode' = IF disp THEN updateDisplay(mode1, alert1, t2) ELSE mode1
        /\ alertStartTime' = alert1
        /\ lastDisplayUpdate' = IF disp THEN t2 ELSE lastDisplayUpdate
        /\ now' = t2 + LoopDelay + ovh
        /\ ev' = [tick |-> TRUE, t0 |-> t0, t |-> t1, polled |-> poll,
                  pre_step_detect |-> step_detect, pre_stepCount |-> step.stepCount,
                  seizureFired |-> sz.fired, seizureReset |-> sz.reset,
                  seizureElapsed |-> sz.elapsed, seizureCount |-> sz.count,
                  fallFired |-> fl.fired, fallReset |-> fl.reset, stillInc |-> fl.stillInc,
                  ffAt |-> o1.ff, impAt |-> o1.imp,
                  bursts |-> o1.bursts, burstAt |-> o1.burstAt,
                  readOk |-> (oks = AllOk), m2 |-> m2,
                  pollAt |-> IF poll THEN t0 ELSE ev.pollAt,
                  prevPollAt |-> ev.pollAt,
                  notReady |-> IF ~ready /\ PollDue(TRUE, t0, sendDataPrevMillis)
                               THEN ev.notReady + 1 ELSE ev.notReady,
                  published |-> publish, dispAt |-> t2]
        /\ obs' = LET o2 == IF fl.reset # "none" THEN ForgetFall(o1) ELSE o1
                  IN  IF sz.reset # "none" THEN ForgetBursts(o2) ELSE o2

\* raw register triples on one axis: 0.3 g, 0.7 g, 1.0 g, 2.0 g (saturated);
\* one axis saturates at 2 g, so 3.0 g is spread over the three axes
Raw03 == <<0, 0, 4915>>
Raw07 == <<0, 0, 11469>>
Raw10 == <<0, 0, 16384>>
Raw20 == <<0, 0, 32767>>
Raw30 == <<32767, 32767, 16384>>

\* samples that drive the fall detector: free fall, stillness, impact
FallSamples == {Raw03, Raw10, Raw20}
\* samples that drive the seizure detector: rest, burst
SeizureSamples == {Raw10, Raw30}
\* samples that drive the step detector: low peak, stance
StepSamples == {Raw07, Raw10}

TickFall ==
    /\ now < StartTime + MaxFallTicks * LoopDelay
    /\ \E raw \in FallSamples, ovh \in LoopOverhead : LoopTick(raw, AllOk, TRUE, FALSE, ovh)
    /\ UNCHANGED <<seqVars, resetVars, gaitVars, bootVars, findVars, stillVars, envVars, refVars, storeVars, logVars, burstVars, oldVars, eeVars, ehVars, pedoVars, gestVars, dashVars, cfallVars, appVars>>

TickSeizure ==
    /\ now < StartTime + MaxSeizureTicks * LoopDelay
    /\ \E raw \in SeizureSamples, ovh \in LoopOverhead : LoopTick(raw, AllOk, TRUE, FALSE, ovh)
    /\ UNCHANGED <<seqVars, resetVars, gaitVars, bootVars, findVars, stillVars, envVars, refVars, storeVars, logVars, burstVars, oldVars, eeVars, ehVars, pedoVars, gestVars, dashVars, cfallVars, appVars>>

TickStep ==
    /\ now < StartTime + MaxStepTicks * LoopDelay
    /\ \E raw \in StepSamples, remote \in BOOLEAN, ovh \in LoopOverhead :
          LoopTick(raw, AllOk, TRUE, remote, ovh)
    /\ UNCHANGED <<seqVars, resetVars, gaitVars, bootVars, findVars, stillVars, envVars, refVars, storeVars, logVars, burstVars, oldVars, eeVars, ehVars, pedoVars, gestVars, dashVars, cfallVars, appVars>>

\* samples and read outcomes that drive the signal conditioner: rest and a
\* burst, each read in full, not at all, or without its Z register
SensorSamples == {Raw10, Raw30}
ReadOutcomes == {AllOk, NoneOk, <<TRUE, TRUE, FALSE>>}

TickSensor ==
    /\ now < StartTime + MaxSensorTicks * LoopDelay
    /\ \E regs \in SensorSamples, oks \in ReadOutcomes, ovh \in LoopOverhead :
          LoopTick(regs, oks, TRUE, FALSE, ovh)
    /\ UNCHANGED <<seqVars, resetVars, gaitVars, bootVars, findVars, stillVars, envVars, refVars, storeVars, logVars, burstVars, oldVars, eeVars, ehVars, pedoVars, gestVars, dashVars, cfallVars, appVars>>

\* the poll of the remote flag with Firebase.ready() false now and then: the
\* device at rest, the flag set either way
TickPoll ==
    /\ now < StartTime + MaxPollTicks * LoopDelay
    /\ \E ready \in BOOLEAN, remote \in BOOLEAN, ovh \in LoopOverhead :
          /\ ready \/ ev.notReady < MaxNotReady
          /\ LoopTick(Raw10, AllOk, ready, remote, ovh)
    /\ UNCHANGED <<seqVars, resetVars, gaitVars, bootVars, findVars, stillVars, envVars, refVars, storeVars, logVars, burstVars, oldVars, eeVars, ehVars, pedoVars, gestVars, dashVars, cfallVars, appVars>>

\* the fall scenario with the run of consecutive stillness samples recorded;
\* the run starts afresh on the tick after a fall reset
TickStill ==
    /\ now < StartTime + MaxStillTicks * LoopDelay
    /\ \E raw \in FallSamples, ovh \in LoopOverhead :
          /\ LoopTick(raw, AllOk, TRUE, FALSE, ovh)
          /\ stillRun' = ObserveStill(IF ev.fallReset # "none" THEN 0 ELSE stillRun,
                                      ev'.stillInc)
    /\ UNCHANGED <<seqVars, resetVars, gaitVars, bootVars, findVars, envVars, refVars, storeVars, logVars, burstVars, oldVars, eeVars, ehVars, pedoVars, gestVars, dashVars, cfallVars, appVars>>

\* the seizure scenario with the run of consecutive over-threshold samples
\* recorded
ObserveRun(run, above) ==
    IF ~above THEN 0 ELSE IF run < SEIZURE_BURST_COUNT THEN run + 1 ELSE run

TickBurst ==
    /\ now < StartTime + MaxBurstTicks * LoopDelay
    /\ \E raw \in SeizureSamples, ovh \in LoopOverhead :
          /\ LoopTick(raw, AllOk, TRUE, FALSE, ovh)
          /\ burstRun' = ObserveRun(burstRun, MagAbove(ev'.m2, SEIZURE_THRESHOLD))
    /\ UNCHANGED <<seqVars, resetVars, gaitVars, bootVars, findVars, stillVars, envVars, refVars, storeVars, logVars, oldVars, eeVars, ehVars, pedoVars, gestVars, dashVars, cfallVars, appVars>>

Init == InitFb /\ InitSeq /\ InitReset /\ InitGait /\ InitBooted /\ InitFind /\ InitStill /\ InitEnv /\ InitRef /\ InitStore /\ InitLog /\ InitBurst /\ InitOld /\ InitEe /\ InitEh /\ InitPedo /\ InitGest /\ InitDash /\ InitCFall /\ InitApp

SpecFall == Init /\ [][TickFall]_vars
SpecSeizure == Init /\ [][TickSeizure]_vars
SpecBurst == Init /\ [][TickBurst]_vars
SpecStep == Init /\ [][TickStep]_vars
SpecSensor == Init /\ [][TickSensor]_vars
SpecPoll == Init /\ [][TickPoll]_vars
SpecStill == Init /\ [][TickStill]_vars

----------------------------------------------------------------------------
(* Scenario: the synthetic fall sequence fed to processFallDetection *)

Rep(n, x) == [i \in 1..n |-> x]

\* [1.0]*10 + [0.3]*5 + [1.0]*3 + [2.0]*5 + [1.0]*15, in milli-g
FallSequence == Rep(10, 1000) \o Rep(5, 300) \o Rep(3, 1000) \o Rep(5, 2000) \o Rep(15, 1000)

\* one sample every 20 ms (50 Hz)
SamplePeriod == 20

\* millis() at the first sample of the sequence
SeqStartTimes == {0, 1000, StartTime, 2 * StartTime}

InitSeqSpec ==
    /\ now \in SeqStartTimes
    /\ sendDataPrevMillis = 0
    /\ step_detect = FALSE
    /\ remoteStepCount = 0
    /\ filtered = [ax |-> 0, ay |-> 0, az |-> 0]
    /\ step = InitStep
    /\ seizure = InitSeizure
    /\ fall = InitFall
    /\ currentMode = "MODE_MONITORING"
    /\ lastDisplayUpdate = 0
    /\ alertStartTime = 0
    /\ ev = NoEv
    /\ obs = NoObs
    /\ InitSeq /\ InitReset /\ InitGait /\ InitBooted /\ InitFind /\ InitStill /\ InitEnv /\ InitRef /\ InitStore /\ InitLog /\ InitBurst /\ InitOld /\ InitEe /\ InitEh /\ InitPedo /\ InitGest /\ InitDash /\ InitCFall /\ InitApp

\* feed the next sample of the sequence to processFallDetection
FeedFall ==
    /\ seqIdx <= Len(FallSequence)
    /\ LET f == [ax |-> 0, ay |-> 0, az |-> FallSequence[seqIdx]]
           fl == processFallDetection(fall, AccelMagnitudeSq(f), now)
       IN  /\ filtered' = f
           /\ fall' = fl.st
           /\ fallAlerts' = fallAlerts + (IF fl.fired THEN 1 ELSE 0)
           /\ currentMode' = IF fl.fired THEN "MODE_FALL_ALERT" ELSE currentMode
           /\ alertStartTime' = IF fl.fired THEN now ELSE alertStartTime
           /\ ev' = [NoEv EXCEPT !.tick = TRUE, !.t0 = now, !.t = now, !.fallFired = fl.fired,
                                 !.fallReset = fl.reset, !.stillInc = fl.stillInc,
                                 !.m2 = AccelMagnitudeSq(f)]
    /\ seqIdx' = seqIdx + 1
    /\ now' = now + SamplePeriod
    /\ UNCHANGED <<sendDataPrevMillis, step_detect, remoteStepCount, step, seizure,
                   lastDisplayUpdate, obs, resetVars, gaitVars, bootVars, findVars, stillVars, envVars, refVars, storeVars, logVars, burstVars, oldVars, eeVars, ehVars, pedoVars, gestVars, dashVars, cfallVars, appVars>>

SpecSeq == InitSeqSpec /\ [][FeedFall]_vars

----------------------------------------------------------------------------
(* Scenario: the reset functions applied to arbitrary detector states *)

ResetTimes == {0, StartTime, StartTime + 700}

SeizureStates ==
    [seizure_start_time : ResetTimes, seizure_detected : BOOLEAN,
     seizure_burst_count : {0, 1, 15}, last_seizure_activity : ResetTimes]

FallStates ==
    [fall_free_fall_detected : BOOLEAN, fall_impact_detected : BOOLEAN,
     fall_stillness_comfirmed : {0, 11}, fall_orientation_changed : {FALSE},
     fall_detection_start : ResetTimes, fall_stillness_start : ResetTimes,
     fall_detected : BOOLEAN]

InitResetSpec ==
    /\ now = StartTime + 700
    /\ sendDataPrevMillis = 0
    /\ step_detect = FALSE
    /\ remoteStepCount = 0
    /\ filtered = [ax |-> 0, ay |-> 0, az |-> 0]
    /\ step = InitStep
    /\ seizure \in SeizureStates
    /\ fall \in FallStates
    /\ currentMode = "MODE_MONITORING"
    /\ lastDisplayUpdate = 0
    /\ alertStartTime = 0
    /\ ev = NoEv
    /\ obs = NoObs
    /\ InitSeq /\ InitReset /\ InitGait /\ InitBooted /\ InitFind /\ InitStill /\ InitEnv /\ InitRef /\ InitStore /\ InitLog /\ InitBurst /\ InitOld /\ InitEe /\ InitEh /\ InitPedo /\ InitGest /\ InitDash /\ InitCFall /\ InitApp

CallResetSeizure ==
    /\ seizure' = resetSeizureDetection(seizure)
    /\ resetRun' = IF resetRun.who = "seizure"
                   THEN [resetRun EXCEPT !.n = IF @ < 2 THEN @ + 1 ELSE @]
                   ELSE [NoResetRun EXCEPT !.who = "seizure", !.n = 1,
                                           !.dirty = (seizure # seizure'),
                                           !.snapS = seizure']
    /\ UNCHANGED <<now, sendDataPrevMillis, step_detect, remoteStepCount, filtered, step,
                   fall, currentMode, lastDisplayUpdate, alertStartTime, ev, obs,
                   seqVars, gaitVars, bootVars, findVars, stillVars, envVars, refVars, storeVars, logVars, burstVars, oldVars, eeVars, ehVars, pedoVars, gestVars, dashVars, cfallVars, appVars>>

CallResetFall ==
    /\ fall' = resetFallDetection(fall)
    /\ resetRun' = IF resetRun.who = "fall"
                   THEN [resetRun EXCEPT !.n = IF @ < 2 THEN @ + 1 ELSE @]
                   ELSE [NoResetRun EXCEPT !.who = "fall", !.n = 1,
                                           !.dirty = (fall # fall'),
                                           !.snapF = fall']
    /\ UNCHANGED <<now, sendDataPrevMillis, step_detect, remoteStepCount, filtered, step,
                   seizure, currentMode, lastDisplayUpdate, alertStartTime, ev, obs,
                   seqVars, gaitVars, bootVars, findVars, stillVars, envVars, refVars, storeVars, logVars, burstVars, oldVars, eeVars, ehVars, pedoVars, gestVars, dashVars, cfallVars, appVars>>

NextReset == CallResetSeizure \/ CallResetFall
SpecReset == InitResetSpec /\ [][NextReset]_vars

----------------------------------------------------------------------------
(* EEPROM-logging variant: detectSteps and its cadence buffer *)

\* STEP_THRESHOLD of the EEPROM-logging variant, 1.1 g
STEP_THRESHOLD == 1100
StepRefractory == 300
CadenceSlots == 20
CadenceEvery == 5
MsPerMinute == 60000

RECURSIVE SumSlots(_, _)
\* stepTimes[0] + ... + stepTimes[n-1]
SumSlots(st, n) == IF n = 0 THEN 0 ELSE st[n - 1] + SumSlots(st, n - 1)

\* cadence = 60000.0 / (avgStepTime / 20.0), kept as an exact quotient
ComputeCadence(st) ==
    [num |-> MsPerMinute * CadenceSlots, den |-> SumSlots(st, CadenceSlots)]

detectSteps(g, accelY, t) ==
    LET isPeak == (accelY > STEP_THRESHOLD) /\ (g.lastAccel <= STEP_THRESHOLD)
        g1 == IF isPeak /\ (t - g.lastStepTime > StepRefractory)
              THEN LET cnt == g.stepCount + 1
                       buf == [g.stepTimes EXCEPT ![g.stepBufferIndex] = t - g.lastStepTime]
                   IN  [g EXCEPT !.stepCount = cnt,
                                 !.stepTimes = buf,
                                 !.stepBufferIndex = (@ + 1) % CadenceSlots,
                                 !.cadence = IF cnt % CadenceEvery = 0
                                             THEN ComputeCadence(buf) ELSE @,
                                 !.lastStepTime = t]
              ELSE g
    IN  [g1 EXCEPT !.lastAccel = accelY, !.calls = @ + 1]

\* filtered Y acceleration at rest and at a step impulse, milli-g
GaitAccels == {500, 1200}
\* time one loop() iteration takes: delay(20), or a dismissed alert
\* (button debounce delay(500)) followed by delay(20)
GaitDeltas == {20, 520}

GaitTick ==
    /\ gait.calls < MaxGaitCalls
    /\ \E a \in GaitAccels, d \in GaitDeltas :
          /\ gait' = detectSteps(gait, a, gaitNow)
          /\ gaitNow' = gaitNow + d
    /\ UNCHANGED <<fbVars, seqVars, resetVars, bootVars, findVars, stillVars, envVars, refVars, storeVars, logVars, burstVars, oldVars, eeVars, ehVars, pedoVars, gestVars, dashVars, cfallVars, appVars>>

SpecGait == Init /\ [][GaitTick]_vars

----------------------------------------------------------------------------
(* Daily data persistence (comprehensive variant) *)

\* any bytes can be in the EEPROM: a few values of each counter, in range,
\* at the edges of the range and outside it
StoredSteps == {-1, 0, 5, 100000, 100001}
StoredMinutes == {-1, 0, 3}
StoredQuality == {-1, 0, 50, 100, 101}
StoredRecords ==
    { [activity |-> [ZeroActivity EXCEPT !.steps = st, !.activeMinutes = am],
       sleep |-> [ZeroSleep EXCEPT !.sleepQuality = q, !.isSleeping = sl]] :
      st \in StoredSteps, am \in StoredMinutes, q \in StoredQuality, sl \in BOOLEAN }

loadDailyData(rec) ==
    [dailyActivity |-> IF rec.activity.steps > 100000 \/ rec.activity.steps < 0
                       THEN ZeroActivity ELSE rec.activity,
     sleepData |-> IF rec.sleep.sleepQuality > 100 \/ rec.sleep.sleepQuality < 0
                   THEN ZeroSleep ELSE rec.sleep]

saveDailyData(st) == [activity |-> st.dailyActivity, sleep |-> st.sleepData]

InitStoreSpec ==
    /\ InitFb /\ InitSeq /\ InitReset /\ InitGait /\ InitBooted /\ InitFind
    /\ InitStill /\ InitEnv /\ InitRef /\ InitLog /\ InitBurst /\ InitOld /\ InitEe /\ InitEh /\ InitPedo /\ InitGest /\ InitDash /\ InitCFall /\ InitApp
    /\ \E rec \in StoredRecords : store = [NoStore EXCEPT !.eeprom = rec]

LoadDailyData ==
    /\ ~store.loaded
    /\ \E ld \in {loadDailyData(store.eeprom)} :
          store' = [store EXCEPT !.dailyActivity = ld.dailyActivity,
                                 !.sleepData = ld.sleepData, !.loaded = TRUE]
    /\ UNCHANGED <<fbVars, seqVars, resetVars, gaitVars, bootVars, findVars, stillVars, envVars, refVars, logVars, burstVars, oldVars, eeVars, ehVars, pedoVars, gestVars, dashVars, cfallVars, appVars>>

SaveDailyData ==
    /\ store.loaded
    /\ store' = [store EXCEPT !.eeprom = saveDailyData(store)]
    /\ UNCHANGED <<fbVars, seqVars, resetVars, gaitVars, bootVars, findVars, stillVars, envVars, refVars, logVars, burstVars, oldVars, eeVars, ehVars, pedoVars, gestVars, dashVars, cfallVars, appVars>>

NextStore == LoadDailyData \/ SaveDailyData
SpecStore == InitStoreSpec /\ [][NextStore]_vars

----------------------------------------------------------------------------
(* Event log (EEPROM-logging variant) *)

EventTypes == {1, 2}
FallEvents(h) == Cardinality({k \in 1..Len(h) : h[k].eventType = 2})

logEventNoWrap(l, type, t) ==
    [slots |-> IF l.logIndex \in DOMAIN l.slots
               THEN [l.slots EXCEPT ![l.logIndex] = [timestamp |-> t, eventType |-> type]]
               ELSE l.slots,
     logIndex |-> l.logIndex + 1,
     hist |-> Append(l.hist, [timestamp |-> t, eventType |-> type])]

\* logEvent(type, severity) at millis() = t
logEvent(l, type, t) ==
    [slots |-> [l.slots EXCEPT ![l.logIndex] = [timestamp |-> t, eventType |-> type]],
     logIndex |-> (l.logIndex + 1) % LogCapacity,
     hist |-> Append(l.hist, [timestamp |-> t, eventType |-> type])]

\* the n-th event since boot is logged at millisecond n; seizure events at
\* will, at most MaxFallEvents fall events
LogEvent ==
    /\ Len(elog.hist) < MaxLogCalls
    /\ \E type \in EventTypes :
          /\ type = 2 => FallEvents(elog.hist) < MaxFallEvents
          /\ elog' = logEvent(elog, type, Len(elog.hist) + 1)
    /\ UNCHANGED <<fbVars, seqVars, resetVars, gaitVars, bootVars, findVars, stillVars, envVars, refVars, storeVars, burstVars, oldVars, eeVars, ehVars, pedoVars, gestVars, dashVars, cfallVars, appVars>>

SpecLog == Init /\ [][LogEvent]_vars

----------------------------------------------------------------------------
(* Duration-gated detectors: Old_reference and the EEPROM-logging variant *)

\* Old_reference: thresholds on resultantAcc = 140 * |filtered acceleration|,
\* in thousandths
OLD_NOISE_THRESHOLD == 500
OLD_MAX_HAND_ACCEL == 30000
OLD_SEIZURE_THRESHOLD == 15000
OLD_SEIZURE_DURATION == 400
OldLoopDelay == 100
\* buzzBuzzer(n): the alert text for 1000 ms, then n beeps of 100 + 100 ms
buzzBuzzer(n) == 1000 + n * (100 + 100)

\* EEPROM-logging variant: thresholds on resultantAcc in thousandths
EE_SEIZURE_THRESHOLD == 15000
EE_SEIZURE_DURATION == 400
FALL_FREE_FALL == 400
FALL_IMPACT == 3000
FALL_IMMOBILITY_TIME == 5000
FallFalseAlarmTime == 2000
LowMovement == 800
ButtonDebounce == 500
\* alertPattern(severity): severity beeps of 100 * severity ms on, 100 ms off
alertPattern(severity) == severity * (100 * severity + 100)

\* the seizure branch of Old_reference's loop() on one resultantAcc at millis() = t
oldSeizure(o, acc, t) ==
    IF acc < OLD_NOISE_THRESHOLD \/ acc > OLD_MAX_HAND_ACCEL
    THEN [detected |-> FALSE, start |-> 0, fired |-> FALSE]
    ELSE IF acc > OLD_SEIZURE_THRESHOLD
         THEN IF ~o.seizure_detected
              THEN [detected |-> TRUE, start |-> t, fired |-> FALSE]
              ELSE IF t - o.seizure_start_time >= OLD_SEIZURE_DURATION
                   THEN [detected |-> FALSE, start |-> 0, fired |-> TRUE]
                   ELSE [detected |-> TRUE, start |-> o.seizure_start_time, fired |-> FALSE]
         ELSE [detected |-> FALSE, start |-> 0, fired |-> FALSE]

OldQualifies(acc) ==
    acc > OLD_SEIZURE_THRESHOLD /\ acc >= OLD_NOISE_THRESHOLD /\ acc <= OLD_MAX_HAND_ACCEL

detectSeizureNoReset(e, accel, t) ==
    IF accel > EE_SEIZURE_THRESHOLD
    THEN IF ~e.seizureDetected
         THEN [detected |-> TRUE, start |-> t, fired |-> FALSE]
         ELSE IF t - e.seizureStartTime >= EE_SEIZURE_DURATION
              THEN [detected |-> FALSE, start |-> e.seizureStartTime, fired |-> TRUE]
              ELSE [detected |-> TRUE, start |-> e.seizureStartTime, fired |-> FALSE]
    ELSE [detected |-> e.seizureDetected, start |-> e.seizureStartTime, fired |-> FALSE]

detectSeizure(e, accel, t) ==
    IF accel > EE_SEIZURE_THRESHOLD
    THEN IF ~e.seizureDetected
         THEN [detected |-> TRUE, start |-> t, fired |-> FALSE]
         ELSE IF t - e.seizureStartTime >= EE_SEIZURE_DURATION
              THEN [detected |-> FALSE, start |-> e.seizureStartTime, fired |-> TRUE]
              ELSE [detected |-> TRUE, start |-> e.seizureStartTime, fired |-> FALSE]
    ELSE [detected |-> FALSE, start |-> e.seizureStartTime, fired |-> FALSE]

detectFall(e, accel, t) ==
    CASE e.fallState = "NONE" ->
           IF accel < FALL_FREE_FALL
           THEN [state |-> "FREE_FALL", start |-> t, alert |-> "none"]
           ELSE [state |-> "NONE", start |-> e.fallStartTime, alert |-> "none"]
      [] e.fallState = "FREE_FALL" ->
           IF accel > FALL_IMPACT
           THEN [state |-> "IMPACT", start |-> e.fallStartTime, alert |-> "FALL DETECTED"]
           ELSE IF t - e.fallStartTime > FallFalseAlarmTime
                THEN [state |-> "NONE", start |-> e.fallStartTime, alert |-> "none"]
                ELSE [state |-> "FREE_FALL", start |-> e.fallStartTime, alert |-> "none"]
      [] e.fallState = "IMPACT" ->
           IF t - e.fallStartTime > FALL_IMMOBILITY_TIME
           THEN [state |-> "NONE", start |-> e.fallStartTime,
                 alert |-> IF accel < LowMovement THEN "NEED HELP?" ELSE "none"]
           ELSE [state |-> "IMPACT", start |-> e.fallStartTime, alert |-> "none"]
      [] OTHER -> [state |-> e.fallState, start |-> e.fallStartTime, alert |-> "none"]

\* severity passed to triggerAlert with each message
AlertSeverity(alert) ==
    CASE alert = "FALL DETECTED" -> 2 [] alert = "NEED HELP?" -> 1 [] OTHER -> 0

\* history: the run of consecutive qualifying samples (runAt = time of its
\* first sample, -1 if the last sample did not qualify or fired), and for
\* the fall detector the time of the impact and whether a sample since
\* then showed movement
SeizureHist(h, t, sampled, over, fired) ==
    LET from == IF over THEN (IF h.runAt < 0 THEN t ELSE h.runAt) ELSE -1
    IN  [h EXCEPT !.tick = TRUE, !.t0 = t, !.sampled = sampled, !.over = sampled /\ over,
                  !.fired = fired,
                  !.runFrom = IF sampled THEN from ELSE h.runAt,
                  !.runAt = IF ~sampled THEN h.runAt ELSE IF fired THEN -1 ELSE from]

FallHist(h, t, sampled, accel, fl) ==
    IF ~sampled THEN [h EXCEPT !.alert = "none", !.sinceImpact = 0, !.movedBefore = FALSE]
    ELSE [h EXCEPT !.alert = fl.alert,
                   !.sinceImpact = IF h.impactAt < 0 THEN 0 ELSE t - h.impactAt,
                   !.movedBefore = IF fl.alert = "NEED HELP?" THEN h.moved ELSE FALSE,
                   !.impactAt = IF fl.alert = "FALL DETECTED" THEN t
                                ELSE IF fl.state = "IMPACT" THEN h.impactAt ELSE -1,
                   !.moved = fl.state = "IMPACT" /\ fl.alert = "none"
                             /\ (h.moved \/ accel >= LowMovement)]

\* one iteration of Old_reference's loop(): ping = Ag.ping(), acc = resultantAcc
OldLoop(acc, ping) ==
    /\ \E sz \in {IF ping THEN oldSeizure(old, acc, old.now)
                  ELSE [detected |-> old.seizure_detected, start |-> old.seizure_start_time,
                        fired |-> FALSE]} :
         /\ old' = [now |-> old.now + (IF sz.fired THEN buzzBuzzer(10) ELSE 0) + OldLoopDelay,
                    seizure_detected |-> sz.detected, seizure_start_time |-> sz.start]
         /\ eh' = [SeizureHist(eh, old.now, ping, OldQualifies(acc), sz.fired)
                      EXCEPT !.pingFails = IF ping THEN @ ELSE @ + 1]
    /\ UNCHANGED <<fbVars, seqVars, resetVars, gaitVars, bootVars, findVars, stillVars, envVars, refVars, storeVars, logVars, burstVars, eeVars, pedoVars, gestVars, dashVars, cfallVars, appVars>>

\* one iteration of the EEPROM-logging loop(): ping = Ag.ping(), accel =
\* resultantAcc, button = the dismiss button is held down.  detectSteps
\* reads filteredAy, neither waits nor touches the two detectors, and is
\* explored on its own.
EeLoop(accel, ping, button) ==
    /\ \E sz \in {IF ping THEN detectSeizure(ee, accel, ee.now)
                  ELSE [detected |-> ee.seizureDetected, start |-> ee.seizureStartTime,
                        fired |-> FALSE]} :
       \E t1 \in {ee.now + (IF sz.fired THEN alertPattern(3) ELSE 0)} :
       \E fl \in {IF ping THEN detectFall(ee, accel, t1)
                  ELSE [state |-> ee.fallState, start |-> ee.fallStartTime, alert |-> "none"]} :
       \E t2 \in {t1 + alertPattern(AlertSeverity(fl.alert))} :
         /\ ee' = [now |-> t2 + (IF button THEN ButtonDebounce ELSE 0) + LoopDelay,
                   seizureDetected |-> sz.detected, seizureStartTime |-> sz.start,
                   fallState |-> fl.state, fallStartTime |-> fl.start]
         /\ elog' = LET l1 == IF sz.fired THEN logEvent(elog, 1, t1) ELSE elog
                    IN  IF fl.alert = "FALL DETECTED" THEN logEvent(l1, 2, t2) ELSE l1
         /\ eh' = [FallHist(SeizureHist(eh, ee.now, ping, accel > EE_SEIZURE_THRESHOLD, sz.fired),
                            t1, ping, accel, fl)
                      EXCEPT !.pingFails = IF ping THEN @ ELSE @ + 1,
                             !.presses = IF button THEN @ + 1 ELSE @]
    /\ UNCHANGED <<fbVars, seqVars, resetVars, gaitVars, bootVars, findVars, stillVars, envVars, refVars, storeVars, burstVars, oldVars, pedoVars, gestVars, dashVars, cfallVars, appVars>>

\* resultantAcc values: below the noise floor, at rest, a seizure, beyond a
\* hand's reach (Old_reference); at rest and a seizure (EEPROM-logging)
OldAccels == {300, 8400, 20000, 40000}
EeSeizureAccels == {1000, 16000}

TickOld ==
    /\ eh.prog = "old"
    /\ old.now < StartTime + MaxOldTicks * OldLoopDelay
    /\ \E acc \in OldAccels, ping \in BOOLEAN :
          /\ ping \/ eh.pingFails < MaxPingFails
          /\ OldLoop(acc, ping)

TickEeSeizure ==
    /\ eh.prog = "eeprom"
    /\ ee.now < StartTime + MaxEeSeizureTicks * LoopDelay
    /\ \E accel \in EeSeizureAccels, ping \in BOOLEAN, button \in BOOLEAN :
          /\ ping \/ eh.pingFails < MaxPingFails
          /\ ~button \/ eh.presses < MaxPresses
          /\ EeLoop(accel, ping, button)

\* the fall scenario of the EEPROM-logging firmware: free fall, low movement,
\* rest, an impact; a fall begins at the start of a period of EpisodeGrid
\* loop periods
EeFallAccels == {300, 700, 1000, 3500}

TickEeFall ==
    /\ ee.now < StartTime + MaxEeFallTicks * LoopDelay
    /\ \E accel \in EeFallAccels :
          /\ (accel < FALL_FREE_FALL /\ ee.fallState = "NONE") =>
                (ee.now - StartTime) % (EpisodeGrid * LoopDelay) = 0
          /\ EeLoop(accel, TRUE, FALSE)

SpecEeFall == Init /\ [][TickEeFall]_vars

\* the fall scenario with the sensor disconnected once, during a free fall,
\* for EeGapTicks iterations in a row: free fall, rest, an impact
EeGapAccels == {300, 1000, 3500}

TickEeGap ==
    /\ ee.now < StartTime + MaxEeGapTicks * LoopDelay
    /\ \E accel \in EeGapAccels, ping \in BOOLEAN :
          /\ (accel < FALL_FREE_FALL /\ ee.fallState = "NONE") =>
                (ee.now - StartTime) % (EpisodeGrid * LoopDelay) = 0
          /\ ~ping => \/ eh.pingFails = 0 /\ ee.fallState = "FREE_FALL"
                      \/ eh.pingFails > 0 /\ eh.pingFails < EeGapTicks
          /\ ping => (eh.pingFails = 0 \/ eh.pingFails >= EeGapTicks)
          /\ EeLoop(accel, ping, FALSE)

SpecEeGap == Init /\ [][TickEeGap]_vars

\* either firmware is running
InitDuration ==
    /\ InitFb /\ InitSeq /\ InitReset /\ InitGait /\ InitBooted /\ InitFind
    /\ InitStill /\ InitEnv /\ InitRef /\ InitStore /\ InitLog /\ InitBurst /\ InitOld /\ InitEe /\ InitPedo /\ InitGest /\ InitDash /\ InitCFall /\ InitApp
    /\ \E prog \in {"old", "eeprom"} : eh = [NoEh EXCEPT !.prog = prog]

NextDuration == TickOld \/ TickEeSeizure
SpecDuration == InitDuration /\ [][NextDuration]_vars

----------------------------------------------------------------------------
(* Step detector of the comprehensive variant *)

\* magnitudes in milli-g
DAILY_STEP_THRESHOLD == 1000
STEP_MIN_INTERVAL == 400
StepRelease == (DAILY_STEP_THRESHOLD * 7) \div 10
DailyLoopDelay == 100

detectStepsDailyNoInterval(p, mag, t) ==
    LET counted == mag > DAILY_STEP_THRESHOLD /\ ~p.peakDetected
        peak == IF counted THEN TRUE ELSE p.peakDetected
    IN  [steps |-> IF counted THEN p.steps + 1 ELSE p.steps,
         lastStepTime |-> IF counted THEN t ELSE p.lastStepTime,
         peakDetected |-> IF mag < StepRelease THEN FALSE ELSE peak,
         stepped |-> counted]

\* detectSteps(data) at millis() = t, data.magnitude = mag
detectStepsDaily(p, mag, t) ==
    LET counted == mag > DAILY_STEP_THRESHOLD /\ ~p.peakDetected
                /\ t - p.lastStepTime > STEP_MIN_INTERVAL
        peak == IF counted THEN TRUE ELSE p.peakDetected
    IN  [steps |-> IF counted THEN p.steps + 1 ELSE p.steps,
         lastStepTime |-> IF counted THEN t ELSE p.lastStepTime,
         peakDetected |-> IF mag < StepRelease THEN FALSE ELSE peak,
         stepped |-> counted]

\* magnitudes below the release level, between it and the threshold, above
\* the threshold; an iteration takes its delay(100), or longer when another
\* detector's alert waits
DailyMags == {600, 850, 1200}
DailyLoopTimes == {DailyLoopDelay, 3 * DailyLoopDelay}

\* one iteration of the comprehensive loop(), as far as the step detector goes
TickDaily ==
    /\ pedo.now < DailyStart + MaxDailyTicks * DailyLoopDelay
    /\ pedo.steps < MaxDailySteps
    /\ \E mag \in DailyMags, dt \in DailyLoopTimes :
       \E r \in {detectStepsDaily(pedo, mag, pedo.now)} :
          pedo' = [now |-> pedo.now + dt,
                   lastStepTime |-> r.lastStepTime, peakDetected |-> r.peakDetected,
                   steps |-> r.steps, stepped |-> r.stepped, t0 |-> pedo.now,
                   prevStepAt |-> IF r.stepped THEN pedo.lastAt ELSE -1,
                   dippedBefore |-> r.stepped /\ pedo.dipped,
                   lastAt |-> IF r.stepped THEN pedo.now ELSE pedo.lastAt,
                   dipped |-> ~r.stepped /\ (pedo.dipped \/ mag < StepRelease)]
    /\ UNCHANGED <<fbVars, seqVars, resetVars, gaitVars, bootVars, findVars, stillVars, envVars, refVars, storeVars, logVars, burstVars, oldVars, eeVars, ehVars, gestVars, dashVars, cfallVars, appVars>>

SpecDaily == Init /\ [][TickDaily]_vars

----------------------------------------------------------------------------
(* Gesture recognition of the comprehensive variant *)

GestureSlots == 10
StrongMovement == 3000
MediumMovement == 2000
GestureCheckPeriod == 1000
EmergencyStrongCount == 7
\* handleShakeGesture: buzzPattern(1)
ShakeBlock == 100
\* triggerEmergencyAlert: three times buzzPattern(5), 1000 and 500 ms, then
\* the emergency information for 10000 ms
EmergencyBlock == 3 * (5 * (150 + 50) + 1000 + 500) + 10000

GestureCode(mag) ==
    IF mag > StrongMovement THEN 1 ELSE IF mag > MediumMovement THEN 2 ELSE 0

\* checkGesturePatterns() on the buffer
ShakePattern(buf) == \A i \in {0, 2, 4, 6} : buf[i] = 1 /\ buf[i + 1] = 0
StrongCount(buf) == Cardinality({i \in 0..(GestureSlots - 1) : buf[i] = 1})
checkGesturePatterns(buf) ==
    [shake |-> ShakePattern(buf), emergency |-> StrongCount(buf) >= EmergencyStrongCount]

\* detectGestures(data) at millis() = t, data.magnitude = mag
detectGestures(g, mag, t) ==
    LET buf == [g.gestureBuffer EXCEPT ![g.gestureIndex] = GestureCode(mag)]
        due == t - g.lastGestureTime > GestureCheckPeriod
        chk == IF due THEN checkGesturePatterns(buf) ELSE [shake |-> FALSE, emergency |-> FALSE]
        t1 == t + (IF chk.shake THEN ShakeBlock ELSE 0)
                + (IF chk.emergency THEN EmergencyBlock ELSE 0)
    IN  [gestureBuffer |-> buf, gestureIndex |-> (g.gestureIndex + 1) % GestureSlots,
         lastGestureTime |-> IF due THEN t1 ELSE g.lastGestureTime,
         checked |-> due, emergency |-> chk.emergency, shake |-> chk.shake, now |-> t1]

\* magnitudes of a low and of a strong movement
GestureMags == {1000, 3500}

\* one iteration of the comprehensive loop(), as far as gestures go
TickGesture ==
    /\ gest.now < DailyStart + MaxGestureTicks * DailyLoopDelay
    /\ \E mag \in GestureMags :
       \E r \in {detectGestures(gest, mag, gest.now)} :
          gest' = [r EXCEPT !.now = @ + DailyLoopDelay]
    /\ UNCHANGED <<fbVars, seqVars, resetVars, gaitVars, bootVars, findVars, stillVars, envVars, refVars, storeVars, logVars, burstVars, oldVars, eeVars, ehVars, pedoVars, dashVars, cfallVars, appVars>>

SpecGesture == Init /\ [][TickGesture]_vars

----------------------------------------------------------------------------
(* Dashboard: session selection and refresh (script.js) *)

\* readSensorData(path): the read of the session is sent
readSessionData(d, session) ==
    [d EXCEPT !.inflight[session] = @ + 1, !.reads = @ + 1]

sessionButtonClickNoClear(d, session) ==
    LET id == d.clicks + 1
        d1 == readSessionData([d EXCEPT !.selectedSessionID = session], session)
    IN  [d1 EXCEPT !.timers = @ \cup {id},
                   !.sessionUpdateInterval = id, !.clicks = id, !.ticked = FALSE]

\* sessionButton.onclick of the button of a session; timers are numbered
\* by the click that set them
sessionButtonClick(d, session) ==
    LET id == d.clicks + 1
        d1 == readSessionData([d EXCEPT !.selectedSessionID = session], session)
    IN  [d1 EXCEPT !.timers = (@ \ {d.sessionUpdateInterval}) \cup {id},
                   !.sessionUpdateInterval = id, !.clicks = id, !.ticked = FALSE]

\* the callback of an interval timer
refreshTick(d) ==
    [readSessionData(d, d.selectedSessionID) EXCEPT !.ticked = TRUE,
                                                    !.tickRead = d.selectedSessionID]

\* the .then of a read of a session: the snapshot has sensor data ("data"),
\* or exists without a sensorData node ("empty")
readCompleted(d, session, outcome) ==
    [d EXCEPT !.inflight[session] = @ - 1,
              !.label = session,
              !.chart = IF outcome = "data" THEN session ELSE @,
              !.ticked = FALSE]

ReadOutcomesDash == {"data", "empty"}

DashUnchanged ==
    UNCHANGED <<fbVars, seqVars, resetVars, gaitVars, bootVars, findVars, stillVars, envVars, refVars, storeVars, logVars, burstVars, oldVars, eeVars, ehVars, pedoVars, gestVars, cfallVars, appVars>>

InFlight(d) == d.inflight["Session_1"] + d.inflight["Session_2"]

SessionClick ==
    /\ dash.clicks < MaxSessionClicks
    /\ InFlight(dash) < MaxInFlight
    /\ \E session \in Sessions : dash' = sessionButtonClick(dash, session)
    /\ DashUnchanged

RefreshTick ==
    /\ dash.reads < MaxDashReads
    /\ InFlight(dash) < MaxInFlight
    /\ \E id \in dash.timers : dash' = refreshTick(dash)
    /\ DashUnchanged

ReadCompleted ==
    /\ \E session \in Sessions, outcome \in ReadOutcomesDash :
          /\ dash.inflight[session] > 0
          /\ dash' = readCompleted(dash, session, outcome)
    /\ DashUnchanged

NextDash == SessionClick \/ RefreshTick \/ ReadCompleted
SpecDash == Init /\ [][NextDash]_vars

----------------------------------------------------------------------------
(* Fall detector of the comprehensive variant *)

\* magnitudes in milli-g; no float magnitude equals the double constant 0.3,
\* so every sample is below or above FALL_FREE_THRESHOLD
FALL_FREE_THRESHOLD == 300
DAILY_FALL_IMPACT_THRESHOLD == 2000
FreeFallMin == 150
FreeFallMax == 1000
\* triggerFallAlert: buzzPattern(5), then delay(3000)
DailyFallBlock == 5 * (150 + 50) + 3000

\* detectFall(data) at millis() = t, data.magnitude = mag
detectFallDaily(c, mag, t) ==
    IF mag < FALL_FREE_THRESHOLD
    THEN [detected |-> TRUE,
          start |-> IF c.freeFallDetected THEN c.freeFallStart ELSE t,
          fired |-> FALSE]
    ELSE IF c.freeFallDetected /\ mag > DAILY_FALL_IMPACT_THRESHOLD
         THEN IF t - c.freeFallStart > FreeFallMin /\ t - c.freeFallStart < FreeFallMax
              THEN [detected |-> FALSE, start |-> c.freeFallStart, fired |-> TRUE]
              ELSE [detected |-> TRUE, start |-> c.freeFallStart, fired |-> FALSE]
         ELSE IF mag > FALL_FREE_THRESHOLD
              THEN [detected |-> FALSE, start |-> c.freeFallStart, fired |-> FALSE]
              ELSE [detected |-> c.freeFallDetected, start |-> c.freeFallStart, fired |-> FALSE]

\* free fall, rest, an impact
DailyFallMags == {200, 1000, 2500}

\* one iteration of the comprehensive loop(), as far as the fall detector
\* goes; clean = every sample since the free-fall flag was set was below
\* FALL_FREE_THRESHOLD
TickDailyFall ==
    /\ cfall.now < DailyStart + MaxDailyFallTicks * DailyLoopDelay
    /\ \E mag \in DailyFallMags, dt \in DailyLoopTimes :
       \E r \in {detectFallDaily(cfall, mag, cfall.now)} :
          cfall' = [now |-> cfall.now + (IF r.fired THEN DailyFallBlock ELSE 0) + dt,
                    freeFallDetected |-> r.detected, freeFallStart |-> r.start,
                    fired |-> r.fired,
                    duration |-> IF r.fired THEN cfall.now - cfall.freeFallStart ELSE 0,
                    cleanBefore |-> r.fired /\ cfall.clean,
                    clean |-> IF ~r.detected THEN FALSE
                              ELSE IF ~cfall.freeFallDetected THEN TRUE
                              ELSE cfall.clean /\ mag < FALL_FREE_THRESHOLD]
    /\ UNCHANGED <<fbVars, seqVars, resetVars, gaitVars, bootVars, findVars, stillVars, envVars, refVars, storeVars, logVars, burstVars, oldVars, eeVars, ehVars, pedoVars, gestVars, dashVars, appVars>>

SpecDailyFall == Init /\ [][TickDailyFall]_vars

----------------------------------------------------------------------------
(* Companion app: _processData *)

\* accelerations and cadence in tenths
SeizureAccel == 150
FallAccel == 30
\* List.filled(50, 0) without growable: true is a fixed-length list
AccelHistoryGrowable == FALSE
NoParse == -1

\* int.tryParse and double.tryParse on the fields the packets below carry;
\* any other text does not parse
intTryParse(str) ==
    CASE str = "10" -> 10
      [] str = "12" -> 12
      [] OTHER -> NoParse
doubleTryParse(str) ==
    CASE str = "20.0" -> 200
      [] str = "15.0" -> 150
      [] str = "3.5" -> 35
      [] str = "3.0" -> 30
      [] str = "1.5" -> 15
      [] OTHER -> NoParse
OrElse(parsed, kept) == IF parsed = NoParse THEN kept ELSE parsed

\* the body of the setState callback after the three fields are taken, on a
\* list that can change its length
classifyAccel(a) ==
    LET hist == Append(Tail(a.accelHistory), a.lastAccel)
    IN  IF a.lastAccel > SeizureAccel
        THEN [a EXCEPT !.accelHistory = hist, !.status = "SEIZURE ALERT!",
                       !.events = Append(@, [type |-> "Seizure", severity |-> a.lastAccel]),
                       !.appended = 1]
        ELSE IF a.lastAccel > FallAccel
        THEN [a EXCEPT !.accelHistory = hist, !.status = "Fall detected",
                       !.events = Append(@, [type |-> "Fall", severity |-> a.lastAccel]),
                       !.appended = 1]
        ELSE [a EXCEPT !.accelHistory = hist, !.status = "Normal"]

\* _processData(value), parts = String.fromCharCodes(value).split(','):
\* removeAt(0) on a fixed-length list throws UnsupportedError, which leaves
\* the callback and is caught by the catch clause of _processData
processData(a, parts) ==
    LET seen == [a EXCEPT !.packets = @ + 1, !.parts = parts, !.appended = 0, !.threw = FALSE]
    IN  IF Len(parts) >= 4
        THEN LET taken == [seen EXCEPT !.steps = OrElse(intTryParse(parts[2]), @),
                                       !.cadence = OrElse(doubleTryParse(parts[3]), @),
                                       !.lastAccel = OrElse(doubleTryParse(parts[4]), @)]
             IN  IF AccelHistoryGrowable THEN classifyAccel(taken)
                 ELSE [taken EXCEPT !.threw = TRUE]
        ELSE seen

\* packets as the firmware's comma-separated lines, split into fields
AppPackets ==
    {<<"D", st, "1.5", ac>> : st \in {"10", "12", "x"}, ac \in {"20.0", "15.0", "3.5", "3.0", "abc"}}
        \cup {<<"D", "10", "1.5">>, <<"D", "10", "1.5", "20.0", "extra">>}

ProcessData ==
    /\ app.packets < MaxPackets
    /\ \E parts \in AppPackets : app' = processData(app, parts)
    /\ UNCHANGED <<fbVars, seqVars, resetVars, gaitVars, bootVars, findVars, stillVars, envVars, refVars, storeVars, logVars, burstVars, oldVars, eeVars, ehVars, pedoVars, gestVars, dashVars, cfallVars>>

SpecApp == Init /\ [][ProcessData]_vars

----------------------------------------------------------------------------
(* Scenario: episodes of samples played to the loop *)

\* a seizure: bursts of 3.0 g for 36 samples (700 ms from the first to the last)
SeizureEpisode == Rep(36, Raw30)
\* a fall: free fall, 200 ms later the impact, then stillness
FallEpisode == <<Raw03>> \o Rep(9, Raw10) \o <<Raw20>> \o Rep(21, Raw10)

\* a fall during a seizure: 25 bursts, free fall, 200 ms later a burst that is
\* the impact (and, 700 ms after the first burst, fires the seizure alert),
\* then stillness
SeizureWithFallEpisode ==
    Rep(25, Raw30) \o <<Raw03>> \o Rep(9, Raw10) \o <<Raw30>> \o Rep(21, Raw10)

Episode(name) ==
    CASE name = "seizure" -> SeizureEpisode
      [] name = "fall" -> FallEpisode
      [] name = "seizureWithFall" -> SeizureWithFallEpisode
      [] OTHER -> <<>>

DisplayEpisodes == {"seizure", "fall"}

Playing(sc) == sc.pos <= Len(Episode(sc.ep))

\* the sample the environment presents: the next of the episode, or rest (1.0 g)
SampleOf(sc) == IF Playing(sc) THEN Episode(sc.ep)[sc.pos] ELSE Raw10

Advance(sc) ==
    IF sc.pos < Len(Episode(sc.ep)) THEN [sc EXCEPT !.pos = @ + 1]
    ELSE [sc EXCEPT !.ep = "rest", !.pos = 1]

\* an episode in progress goes on; at rest a new episode may start every
\* EpisodeGrid loop periods, at most maxEp times
NextScripts(sc, t, names, maxEp) ==
    IF Playing(sc) THEN {sc}
    ELSE {sc} \cup
         IF sc.started < maxEp /\ (t - StartTime) % (EpisodeGrid * LoopDelay) = 0
         THEN {[ep |-> e, pos |-> 1, started |-> sc.started + 1] : e \in names}
         ELSE {}

TickDisplay ==
    /\ now < StartTime + MaxDisplayTicks * LoopDelay
    /\ \E sc \in NextScripts(script, now, DisplayEpisodes, MaxEpisodes), ovh \in LoopOverhead :
          /\ LoopTick(SampleOf(sc), AllOk, TRUE, FALSE, ovh)
          /\ script' = Advance(sc)
    /\ UNCHANGED <<seqVars, resetVars, gaitVars, bootVars, findVars, stillVars, refVars, storeVars, logVars, burstVars, oldVars, eeVars, ehVars, pedoVars, gestVars, dashVars, cfallVars, appVars>>

SpecDisplay == Init /\ [][TickDisplay]_vars

IndepEpisodes == {"seizure", "fall", "seizureWithFall"}

\* the fall detector of a loop that reads the same samples and whose seizure
\* alert never sounds: one sample every loop period, its own alert aside
RefFall(r, m2) ==
    LET fl == processFallDetection(r.fall, m2, r.now)
    IN  [fall |-> fl.st, fired |-> fl.fired,
         now |-> r.now + (IF fl.fired THEN buzzAlert(3, 100) ELSE 0) + LoopDelay]

TickIndep ==
    /\ now < StartTime + MaxIndepTicks * LoopDelay
    /\ \E sc \in NextScripts(script, now, IndepEpisodes, 1), ovh \in LoopOverhead :
          /\ LoopTick(SampleOf(sc), AllOk, TRUE, FALSE, ovh)
          /\ script' = Advance(sc)
          /\ ref' = RefFall(ref, ev'.m2)
    /\ UNCHANGED <<seqVars, resetVars, gaitVars, bootVars, findVars, stillVars, storeVars, logVars, burstVars, oldVars, eeVars, ehVars, pedoVars, gestVars, dashVars, cfallVars, appVars>>

SpecIndep == Init /\ [][TickIndep]_vars
\* loop() is called again and again
SpecDisplayFair == SpecDisplay /\ WF_vars(TickDisplay)

----------------------------------------------------------------------------
(* setup(), Firebase variant *)

\* delay(3000) of showStartupScreen, delay(100) after the sensor configuration,
\* delay(1000) of calibrateInitialOrientation, delay(300) of the Wi-Fi wait
StartupScreenDelay == 3000
SensorConfigDelay == 100
CalibrationDelay == 1000
WifiRetryDelay == 300

NotBooted == [pc |-> "setup", displayOk |-> FALSE, mpuOk |-> FALSE, screen |-> "none",
              wifiWaits |-> 0, loopAt |-> -1]

\* faulty variant: the while(1) after the error screen is missing
setupSensorNoHalt(displayOk, mpuOk) ==
    LET shown == IF displayOk THEN StartupScreenDelay ELSE 0
        b == [NotBooted EXCEPT !.displayOk = displayOk, !.mpuOk = mpuOk]
    IN  IF mpuOk
        THEN [boot |-> [b EXCEPT !.pc = "wifi",
                                 !.screen = IF displayOk THEN "startup" ELSE "none"],
              elapsed |-> shown + SensorConfigDelay + CalibrationDelay]
        ELSE [boot |-> [b EXCEPT !.pc = "wifi", !.screen = "MPU6050 ERROR!"],
              elapsed |-> shown]

\* setup() from its start to the end of the MPU6050 branch: display.begin(),
\* showStartupScreen, testMPU6050Connection, then configuration and
\* calibration, or the error screen and while(1)
setupSensor(displayOk, mpuOk) ==
    LET shown == IF displayOk THEN StartupScreenDelay ELSE 0
        b == [NotBooted EXCEPT !.displayOk = displayOk, !.mpuOk = mpuOk]
    IN  IF mpuOk
        THEN [boot |-> [b EXCEPT !.pc = "wifi",
                                 !.screen = IF displayOk THEN "startup" ELSE "none"],
              elapsed |-> shown + SensorConfigDelay + CalibrationDelay]
        ELSE [boot |-> [b EXCEPT !.pc = "halted", !.screen = "MPU6050 ERROR!"],
              elapsed |-> shown]

InitBootSpec ==
    /\ now = 0
    /\ sendDataPrevMillis = 0
    /\ step_detect = FALSE
    /\ remoteStepCount = 0
    /\ filtered = [ax |-> 0, ay |-> 0, az |-> 0]
    /\ step = InitStep
    /\ seizure = InitSeizure
    /\ fall = InitFall
    /\ currentMode = "MODE_MONITORING"
    /\ lastDisplayUpdate = 0
    /\ alertStartTime = 0
    /\ ev = NoEv
    /\ obs = NoObs
    /\ boot = NotBooted
    /\ InitSeq /\ InitReset /\ InitGait /\ InitFind /\ InitStill /\ InitEnv /\ InitRef /\ InitStore /\ InitLog /\ InitBurst /\ InitOld /\ InitEe /\ InitEh /\ InitPedo /\ InitGest /\ InitDash /\ InitCFall /\ InitApp

SetupSensor ==
    /\ boot.pc = "setup"
    /\ \E displayOk \in BOOLEAN, mpuOk \in BOOLEAN :
          LET r == setupSensor(displayOk, mpuOk)
          IN  boot' = r.boot /\ now' = now + r.elapsed
    /\ UNCHANGED <<sendDataPrevMillis, step_detect, remoteStepCount, filtered, step, seizure,
                   fall, currentMode, lastDisplayUpdate, alertStartTime, ev, obs,
                   seqVars, resetVars, gaitVars, findVars, stillVars, envVars, refVars, storeVars, logVars, burstVars, oldVars, eeVars, ehVars, pedoVars, gestVars, dashVars, cfallVars, appVars>>

\* while (WiFi.status() != WL_CONNECTED) delay(300);
WifiWait ==
    /\ boot.pc = "wifi"
    /\ boot.wifiWaits < MaxWifiWaits
    /\ boot' = [boot EXCEPT !.wifiWaits = @ + 1]
    /\ now' = now + WifiRetryDelay
    /\ UNCHANGED <<sendDataPrevMillis, step_detect, remoteStepCount, filtered, step, seizure,
                   fall, currentMode, lastDisplayUpdate, alertStartTime, ev, obs,
                   seqVars, resetVars, gaitVars, findVars, stillVars, envVars, refVars, storeVars, logVars, burstVars, oldVars, eeVars, ehVars, pedoVars, gestVars, dashVars, cfallVars, appVars>>

\* Wi-Fi connected: the rest of setup() runs and loop() is entered
SetupEnd ==
    /\ boot.pc = "wifi"
    /\ boot' = [boot EXCEPT !.pc = "loop", !.loopAt = now]
    /\ UNCHANGED <<fbVars, seqVars, resetVars, gaitVars, findVars, stillVars, envVars, refVars, storeVars, logVars, burstVars, oldVars, eeVars, ehVars, pedoVars, gestVars, dashVars, cfallVars, appVars>>

TickBoot ==
    /\ boot.pc = "loop"
    /\ now < boot.loopAt + MaxBootTicks * LoopDelay
    /\ \E raw \in FallSamples, ovh \in LoopOverhead : LoopTick(raw, AllOk, TRUE, FALSE, ovh)
    /\ UNCHANGED <<seqVars, resetVars, gaitVars, bootVars, findVars, stillVars, envVars, refVars, storeVars, logVars, burstVars, oldVars, eeVars, ehVars, pedoVars, gestVars, dashVars, cfallVars, appVars>>

NextBoot == SetupSensor \/ WifiWait \/ SetupEnd \/ TickBoot
SpecBoot == InitBootSpec /\ [][NextBoot]_vars

----------------------------------------------------------------------------
(* Remote find-me flag: the dashboard's buzzer button and the device's handler *)

\* script.js, the click handler of buzzButton: toggle the button's value and
\* write it to /FindMy
buzzButtonClick(fm) ==
    LET isActive == ~fm.buzzButton
    IN  [fm EXCEPT !.buzzButton = isActive, !.FindMy = isActive, !.clicks = @ + 1]

\* the device reads /FindMy as true and starts one buzzer pattern
FindMyObserve(fm) ==
    [fm EXCEPT !.pc = "buzzing", !.seen = @ + 1, !.buzzes = @ + 1]

\* faulty variant: the flag is not acknowledged
FindMyAckSkipped(fm) == [fm EXCEPT !.pc = "idle"]

\* the device acknowledges the flag by writing it back to false
FindMyAck(fm) == [fm EXCEPT !.pc = "idle", !.FindMy = FALSE, !.acks = @ + 1]

ClickBuzz ==
    /\ findme.clicks < MaxFindClicks
    /\ findme' = buzzButtonClick(findme)
    /\ UNCHANGED <<fbVars, seqVars, resetVars, gaitVars, bootVars, stillVars, envVars, refVars, storeVars, logVars, burstVars, oldVars, eeVars, ehVars, pedoVars, gestVars, dashVars, cfallVars, appVars>>

DeviceObserveFindMy ==
    /\ findme.pc = "idle"
    /\ findme.FindMy
    /\ findme' = FindMyObserve(findme)
    /\ UNCHANGED <<fbVars, seqVars, resetVars, gaitVars, bootVars, stillVars, envVars, refVars, storeVars, logVars, burstVars, oldVars, eeVars, ehVars, pedoVars, gestVars, dashVars, cfallVars, appVars>>

DeviceAckFindMy ==
    /\ findme.pc = "buzzing"
    /\ findme' = FindMyAck(findme)
    /\ UNCHANGED <<fbVars, seqVars, resetVars, gaitVars, bootVars, stillVars, envVars, refVars, storeVars, logVars, burstVars, oldVars, eeVars, ehVars, pedoVars, gestVars, dashVars, cfallVars, appVars>>

NextFind == ClickBuzz \/ DeviceObserveFindMy \/ DeviceAckFindMy
SpecFind == Init /\ [][NextFind]_vars

----------------------------------------------------------------------------
(* Properties *)

Min(a, b) == IF a < b THEN a ELSE b
SeqDone == seqIdx > Len(FallSequence)

\* C1 (as stated): after the whole synthetic sequence has been fed,
\* triggerFallAlert has been invoked exactly once.
C1_SequenceFiresOnce == SeqDone => fallAlerts = 1

\* C1 (amended): after the whole synthetic sequence has been fed,
\* triggerFallAlert has not been invoked: the first 2.0 g sample comes
\* 160 ms after the free fall started, before the 200 ms settle time, and
\* aborts the detection.
C1_SequenceNeverFires == SeqDone => fallAlerts = 0

C1_SequenceFed == SeqDone /\ fallAlerts = 0 /\ fall = InitFall

\* C2: the fall alert fires only if, since the last reset, a free-fall sample
\* was seen on an earlier tick than an impact sample, and every sample that
\* increments the stillness counter comes on a later tick than that impact.
C2_FallNeedsPhases ==
    /\ ev.fallFired => (ev.ffAt >= 0 /\ ev.impAt > ev.ffAt)
    /\ ev.stillInc => (ev.ffAt >= 0 /\ ev.impAt > ev.ffAt /\ ev.t > ev.impAt)

C2_FallFired == ev.fallFired /\ ev.ffAt >= 0 /\ ev.impAt > ev.ffAt

C4_StepCountMonotone ==
    [][(ev.tick /\ step_detect /\ step_detect') => step.stepCount' >= step.stepCount]_vars

C4_StepCounted ==
    ev.tick /\ ev.pre_step_detect /\ step_detect /\ step.stepCount > ev.pre_stepCount

\* C5: at the end of every tick in which step_detect is false, stepCount is 0,
\* also on the tick where the flag is seen to change from true to false.
C5_DisabledMeansZero == (ev.tick /\ ~step_detect) => step.stepCount = 0

C5_DisabledAfterCounting ==
    ev.tick /\ ev.pre_step_detect /\ ev.pre_stepCount > 0 /\ ~step_detect /\ step.stepCount = 0

\* C6 (as stated): at the end of every tick in which step_detect is false,
\* step_L_peak_achieved is false.
C6_DisabledStaysAwaiting == (ev.tick /\ ~step_detect) => ~step.step_L_peak_achieved

\* C7 (as stated): at the end of a tick on which the seizure detector was
\* reset (alert fired or inactivity timeout), its state is the initial state.
C7_SeizureResetToInitial == ev.seizureReset # "none" => seizure = InitSeizure

\* C7 (amended): at the end of a tick on which the seizure detector was reset,
\* seizure_detected is false, seizure_start_time and last_seizure_activity are
\* 0, and seizure_burst_count is 1.
C7_SeizureResetState ==
    ev.seizureReset # "none" => seizure = [InitSeizure EXCEPT !.seizure_burst_count = 1]

C7_SeizureTimedOut == ev.seizureReset = "timeout" /\ ev.bursts > 0 /\ ~seizure.seizure_detected

\* C8: at the end of a tick on which the fall detector was reset (alert fired,
\* timeout, or abort on an early impact), its state is the initial state.
C8_FallResetToInitial == ev.fallReset # "none" => fall = InitFall

C8_FallTimedOut == ev.fallReset = "timeout" /\ ev.ffAt >= 0 /\ fall = InitFall

\* C9: a second consecutive call of resetSeizureDetection (resetFallDetection)
\* leaves the state the first call produced.
C9_ResetIdempotent ==
    /\ (resetRun.who = "seizure" /\ resetRun.n >= 2) => seizure = resetRun.snapS
    /\ (resetRun.who = "fall" /\ resetRun.n >= 2) => fall = resetRun.snapF

C9_ResetTwice == resetRun.who = "fall" /\ resetRun.n = 2 /\ resetRun.dirty

\* C10 (as stated): whenever stepCount is a positive multiple of 5, cadence is
\* 60000 divided by the mean of the last min(stepCount, 20) recorded intervals.
C10_CadenceIsMeanOfRecorded ==
    (gait.stepCount > 0 /\ gait.stepCount % CadenceEvery = 0) =>
        LET k == Min(gait.stepCount, CadenceSlots)
        IN  (gait.cadence.num \div MsPerMinute) * SumSlots(gait.stepTimes, k)
                = k * gait.cadence.den

C12_FailedReadSkipsSample ==
    [][(ev'.tick /\ ~ev'.readOk) =>
          (filtered' = filtered /\ step' = step /\ seizure' = seizure /\ fall' = fall)]_vars

\* C13: if the MPU6050 connection test fails in setup(), the error screen is
\* shown and the device halts there: no loop() iteration ever runs, and no
\* step leaves the halted state.
C13_SensorFailureHalts ==
    /\ []((boot.pc # "setup" /\ ~boot.mpuOk) =>
             (boot.pc = "halted" /\ boot.screen = "MPU6050 ERROR!" /\ ~ev.tick))
    /\ [][boot.pc # "halted"]_vars

C13_Halted == boot.pc = "halted" /\ ~boot.mpuOk /\ boot.screen = "MPU6050 ERROR!"

\* C14 (as stated): two consecutive samples are taken one loop period (20 ms)
\* apart, also across a tick on which an alert ran its buzzer pattern.
C14_SamplePeriodKept ==
    [][(ev.tick /\ ev'.tick) => ev'.t0 - ev.t0 = LoopDelay]_vars

\* C15: a tick that reads /StepDetect comes more than 15000 ms after the
\* previous tick that read it.
C15_PollsRateLimited ==
    (ev.polled /\ ev.prevPollAt >= 0) => ev.t0 - ev.prevPollAt > PollPeriod

C15_PolledAgain == ev.polled /\ ev.prevPollAt >= 0 /\ ev.notReady > 0

\* C16 (as stated): on every tick that polls the remote store, stepCount is
\* written to it, whatever the value of the flag just read.
C16_PublishOnEveryPoll == ev.polled => ev.published

\* C17: on a tick with step counting enabled stepCount changes by 0 or by +2;
\* by +2 exactly when the low peak was latched at the start of the tick and
\* the magnitude is strictly between 0.95 and 1.05, and then the latch is
\* clear at the end of the tick.
C17_StepIncrement ==
    [][(ev'.tick /\ step_detect') =>
          LET d == step'.stepCount - step.stepCount
              hit == /\ step.step_L_peak_achieved
                     /\ MagAbove(ev'.m2, StanceLow)
                     /\ MagBelow(ev'.m2, StanceHigh)
          IN  /\ d \in {0, 2}
              /\ d = 2 <=> hit
              /\ hit => ~step'.step_L_peak_achieved]_vars

C17_StepTaken ==
    /\ ev.tick /\ step_detect /\ ev.pre_step_detect
    /\ step.stepCount = ev.pre_stepCount + 2
    /\ MagAbove(ev.m2, StanceLow) /\ MagBelow(ev.m2, StanceHigh)
    /\ ~step.step_L_peak_achieved

\* C18: on a tick whose sample is not above SEIZURE_THRESHOLD and comes more
\* than SEIZURE_RESET_TIME after the last over-threshold sample seen since the
\* detector was last reset, the detector goes back to idle (seizure_detected
\* false) and triggerSeizureAlert is not invoked.
C18_SeizureInactivityReset ==
    [][(/\ ev'.tick
        /\ obs.lastBurstAt >= 0
        /\ ~MagAbove(ev'.m2, SEIZURE_THRESHOLD)
        /\ ev'.t0 - obs.lastBurstAt > SEIZURE_RESET_TIME) =>
          (/\ ev'.seizureReset = "timeout"
           /\ ~ev'.seizureFired
           /\ ~seizure'.seizure_detected)]_vars

C18_SeizureGaveUp ==
    /\ ev.seizureReset = "timeout" /\ ~ev.seizureFired
    /\ ev.bursts >= 2
    /\ ~MagAbove(ev.m2, SEIZURE_THRESHOLD)
    /\ ~seizure.seizure_detected

\* C19: the fall detector is back in its initial state, without having fired,
\* at the end of a tick (a) that comes more than 1300 ms after the free fall
\* started with no impact registered, and (b) whose sample is above
\* FALL_IMPACT_THRESHOLD less than 200 ms after the free fall started.
C19_FallFalseAlarmsAbort ==
    /\ (ev.tick /\ ev.ffAt >= 0 /\ ev.impAt = -1 /\ ev.t - ev.ffAt > FallTimeout) =>
          (ev.fallReset = "timeout" /\ ~ev.fallFired /\ fall = InitFall)
    /\ (ev.tick /\ ev.ffAt >= 0 /\ ev.impAt = ev.t
               /\ ev.t - ev.ffAt < reset_time_thresholds) =>
          (ev.fallReset \in {"abort", "timeout"} /\ ~ev.fallFired /\ fall = InitFall)

C19_EarlyImpactAborted ==
    /\ ev.fallReset = "abort" /\ ev.ffAt >= 0 /\ ev.impAt = ev.t
    /\ ev.t - ev.ffAt < reset_time_thresholds
    /\ fall = InitFall

\* C20 (as stated): the fall alert fires only on a tick that ends a run of more
\* than 10 consecutive samples that each qualified as stillness.
C20_FiresOnConsecutiveStillness == ev.fallFired => stillRun > FallConfirmCount

AlertHold(mode) ==
    IF mode = "MODE_SEIZURE_ALERT" THEN SeizureAlertHold ELSE FallAlertHold
AlertModes == {"MODE_SEIZURE_ALERT", "MODE_FALL_ALERT"}

\* C21 (as stated): the display leaves an alert mode only when more than the
\* mode's hold time (10000 ms seizure, 15000 ms fall) has elapsed since the
\* alert.
C21_AlertHeldUntilTimeout ==
    [][(currentMode \in AlertModes /\ currentMode' # currentMode) =>
          ev'.dispAt - alertStartTime' > AlertHold(currentMode)]_vars

\* C21 (amended): the display leaves an alert mode only for MODE_MONITORING,
\* at a refresh more than the mode's hold time after the latest alert, or for
\* the other alert mode on a tick on which that alert fires.
C21_AlertHeldOrPreempted ==
    [][(currentMode \in AlertModes /\ currentMode' # currentMode) =>
          \/ /\ currentMode' = "MODE_MONITORING"
             /\ ~ev'.seizureFired /\ ~ev'.fallFired
             /\ ev'.dispAt - alertStartTime > AlertHold(currentMode)
          \/ /\ currentMode' = "MODE_FALL_ALERT" /\ ev'.fallFired
          \/ /\ currentMode' = "MODE_SEIZURE_ALERT" /\ ev'.seizureFired /\ ~ev'.fallFired]_vars

C21_BothAlertsOver ==
    /\ currentMode = "MODE_MONITORING" /\ alertStartTime > 0
    /\ script.started = 2
    /\ ev.dispAt - alertStartTime > SeizureAlertHold
    /\ ev.dispAt - alertStartTime <= SeizureAlertHold + 2 * LoopDelay

\* loop periods within which an alert screen is reverted: the longer hold
\* time, and the refresh that comes every other period
RevertTicks == FallAlertHold \div LoopDelay + 3

\* C22: with loop() called again and again, from every state in an alert mode
\* (early enough for the hold time to fit into the explored periods) the mode
\* eventually is MODE_MONITORING, unless an alert fires again.
C22_AlertEventuallyReverts ==
    (/\ currentMode \in AlertModes
     /\ ~ev.seizureFired /\ ~ev.fallFired
     /\ now < StartTime + (MaxDisplayTicks - RevertTicks) * LoopDelay)
        ~> (currentMode = "MODE_MONITORING" \/ ev.seizureFired \/ ev.fallFired)

C22_FallScreenReverted ==
    /\ currentMode = "MODE_MONITORING"
    /\ ev.dispAt - alertStartTime > FallAlertHold
    /\ ev.dispAt - alertStartTime <= FallAlertHold + 2 * LoopDelay
    /\ alertStartTime > 0

\* C23: currentMode is always MODE_MONITORING, MODE_SEIZURE_ALERT or
\* MODE_FALL_ALERT; the declared MODE_STEP_COUNT is never reached.
C23_ModeNeverStepCount ==
    /\ currentMode \in SystemMode
    /\ currentMode # "MODE_STEP_COUNT"

C23_SecondAlertShown ==
    currentMode = "MODE_SEIZURE_ALERT" /\ ev.seizureFired /\ script.started = 2

FallFlags(f) ==
    <<f.fall_free_fall_detected, f.fall_impact_detected, f.fall_stillness_comfirmed>>

\* C24 (as stated): at the end of every tick the fall detector's flags and
\* stillness counter, and whether it fired, are those of the fall detector of
\* a loop that reads the same samples and whose seizure alert never sounds.
C24_FallIndependentOfSeizure ==
    ev.tick => (FallFlags(fall) = FallFlags(ref.fall) /\ ev.fallFired = ref.fired)

\* C25 (as stated): after loadDailyData the daily counters are in their
\* plausible range: 0 <= steps <= 100000, activeMinutes >= 0 and
\* 0 <= sleepQuality <= 100.
C25_LoadedCountersInRange ==
    store.loaded =>
        /\ store.dailyActivity.steps >= 0 /\ store.dailyActivity.steps <= 100000
        /\ store.dailyActivity.activeMinutes >= 0
        /\ store.sleepData.sleepQuality >= 0 /\ store.sleepData.sleepQuality <= 100

Max(a, b) == IF a > b THEN a ELSE b
Logged(l) == {l.slots[i] : i \in {j \in DOMAIN l.slots : l.slots[j] # NoEvent}}
Recent(h, n) == {h[k] : k \in Max(1, Len(h) - n + 1)..Len(h)}

C27_FiresOnConsecutiveBursts == ev.seizureFired => burstRun >= SEIZURE_BURST_COUNT

\* the seizure flag of the firmware that is running
DurationDetected == IF eh.prog = "old" THEN old.seizure_detected ELSE ee.seizureDetected

\* C28: a duration-gated detector fires only on a sample that ends a run of
\* consecutive qualifying samples begun at least 400 ms earlier, and a
\* sample that does not qualify leaves the detector reset without firing.
C28_FiresAfterContinuousRun ==
    /\ eh.fired => (eh.runFrom >= 0 /\ eh.t0 - eh.runFrom >= OLD_SEIZURE_DURATION)
    /\ (eh.tick /\ eh.sampled /\ ~eh.over) => (~eh.fired /\ ~DurationDetected)

\* the EEPROM-logging firmware has fired on a run stretched by a failed ping
\* or a held button
C28_FiredAfterRun ==
    eh.fired /\ eh.prog = "eeprom" /\ (eh.pingFails > 0 \/ eh.presses > 0)

OldFired == eh.fired /\ eh.prog = "old" /\ eh.pingFails > 0

\* C29: a step counted after an earlier one comes more than
\* STEP_MIN_INTERVAL after it, and a sample below 0.7 * STEP_THRESHOLD was
\* read in between.
C29_StepsApartAndReleased ==
    (pedo.stepped /\ pedo.prevStepAt >= 0) =>
        /\ pedo.t0 - pedo.prevStepAt > STEP_MIN_INTERVAL
        /\ pedo.dippedBefore

\* a third step has been counted
C29_ThirdStep == pedo.stepped /\ pedo.prevStepAt >= 0 /\ pedo.steps >= 3

\* C30 (as stated): 'NEED HELP?' is raised only if the acceleration stayed
\* below 0.8 for the whole FALL_IMMOBILITY_TIME following the impact.
C30_NeedHelpAfterImmobility ==
    eh.alert = "NEED HELP?" =>
        (~eh.movedBefore /\ eh.sinceImpact >= FALL_IMMOBILITY_TIME)

\* the codes of the gesture buffer, oldest first
GestureHistory(g) ==
    [k \in 0..(GestureSlots - 1) |-> g.gestureBuffer[(g.gestureIndex + k) % GestureSlots]]
ThreeStrongInSequence(g) ==
    \E k \in 0..(GestureSlots - 3) :
        \A j \in 0..2 : GestureHistory(g)[k + j] = 1

\* C31 (as stated): at a pattern check triggerEmergencyAlert is invoked
\* exactly when the gesture buffer holds three consecutive strong-movement
\* codes.
C31_EmergencyOnThreeStrong ==
    gest.checked => (gest.emergency <=> ThreeStrongInSequence(gest))

\* C32 (as stated): whenever no read is in flight, the chart data and the
\* 'Active Session' label are those of the selected session.
C32_DisplayIsSelectedSession ==
    (dash.selectedSessionID # "null" /\ InFlight(dash) = 0) =>
        (dash.label = dash.selectedSessionID /\ dash.chart = dash.selectedSessionID)

\* the same with every read returning sensor data
StaleReadNeverWins ==
    (dash.selectedSessionID # "null" /\ InFlight(dash) = 0 /\ dash.chart = dash.label) =>
        dash.label = dash.selectedSessionID

\* C40: at most one refresh timer is active, it is the one set by the last
\* click, and a tick of it reads the selected session.
C40_OneTimerReadsSelected ==
    /\ Cardinality(dash.timers) <= 1
    /\ dash.timers \subseteq {dash.sessionUpdateInterval}
    /\ dash.ticked => dash.tickRead = dash.selectedSessionID

\* the timer set by the third click has ticked
C40_ThirdTimerTicked ==
    dash.ticked /\ dash.clicks >= 3 /\ dash.timers = {dash.clicks}

\* C33: at the end of every tick fall_impact_detected implies
\* fall_free_fall_detected, and a positive fall_stillness_comfirmed implies
\* fall_impact_detected.
C33_FallFlagsConsistent ==
    /\ fall.fall_impact_detected => fall.fall_free_fall_detected
    /\ fall.fall_stillness_comfirmed > 0 => fall.fall_impact_detected

\* a tick has ended with stillness being counted
C33_StillnessCounting ==
    /\ ev.tick /\ ev.stillInc /\ fall.fall_stillness_comfirmed > 0
    /\ fall.fall_impact_detected /\ fall.fall_free_fall_detected

\* C34 (as stated): the fall alert fires only on a tick whose timestamp is
\* at most 1300 ms after the free-fall start.
C34_FiresWithinWindow ==
    ev.fallFired => (ev.ffAt >= 0 /\ ev.t - ev.ffAt <= FallTimeout)

\* C34 (amended): the fall alert fires only on a tick that follows a tick of
\* the same free-fall episode whose timestamp was at most 1300 ms after the
\* free-fall start; the firing tick itself may be the first one later than
\* that.
C34_FiresBeforeTimeoutRuns ==
    [][ev'.fallFired =>
          (ev.tick /\ ev.ffAt >= 0 /\ ev'.ffAt = ev.ffAt /\ ev.t - ev.ffAt <= FallTimeout)]_vars

\* the alert fired on the first tick later than 1300 ms after the free fall
C34_FiredJustAfterWindow ==
    ev.fallFired /\ ev.ffAt >= 0 /\ ev.t - ev.ffAt > FallTimeout

\* C35: at the end of every tick fall_stillness_comfirmed is between 0 and
\* 10, and a tick on which the alert fired ends with the counter at 0.
C35_StillnessCountBounded ==
    /\ fall.fall_stillness_comfirmed >= 0
    /\ fall.fall_stillness_comfirmed <= FallConfirmCount
    /\ ev.fallFired => fall.fall_stillness_comfirmed = 0

\* the eleventh stillness sample fired the alert
C35_EleventhSampleFired ==
    ev.fallFired /\ ev.stillInc /\ fall.fall_stillness_comfirmed = 0

\* C36 (as stated): a processed tick that begins more than 5000 ms after
\* fallStartTime with fallState FREE_FALL or IMPACT ends with fallState NONE.
C36_NoneByFirstLateTick ==
    [][(eh'.sampled /\ ee.fallState \in {"FREE_FALL", "IMPACT"}
          /\ ee.now - ee.fallStartTime > FALL_IMMOBILITY_TIME)
       => ee'.fallState = "NONE"]_vars

\* C37 (as stated): the comprehensive fall alert fires only more than 150 ms
\* and less than 1000 ms after the free-fall flag was set, with every sample
\* in between below FALL_FREE_THRESHOLD, and leaves the flag cleared.
C37_FiresAfterCleanFreeFall ==
    cfall.fired =>
        /\ cfall.duration > FreeFallMin /\ cfall.duration < FreeFallMax
        /\ cfall.cleanBefore
        /\ ~cfall.freeFallDetected

\* C38 (as stated): a packet of at least four fields whose acceleration
\* exceeds 15.0 sets the status 'SEIZURE ALERT!' and appends exactly one
\* Seizure event; one in (3.0, 15.0] sets 'Fall detected' and appends one
\* Fall event; any other sets 'Normal' and appends nothing; the acceleration
\* history keeps exactly 50 entries.
C38_PacketClassified ==
    /\ Len(app.accelHistory) = AccelHistoryLen
    /\ (app.packets > 0 /\ Len(app.parts) >= 4) =>
          LET acc == doubleTryParse(app.parts[4])
          IN  IF acc > SeizureAccel
              THEN /\ app.status = "SEIZURE ALERT!" /\ app.appended = 1
                   /\ app.events[Len(app.events)].type = "Seizure"
              ELSE IF acc > FallAccel
              THEN /\ app.status = "Fall detected" /\ app.appended = 1
                   /\ app.events[Len(app.events)].type = "Fall"
              ELSE app.status = "Normal" /\ app.appended = 0

\* C39: in every reachable state of the Firebase variant stepCount is a
\* non-negative even number.
C39_StepCountEven == step.stepCount >= 0 /\ step.stepCount % 2 = 0

\* two steps were counted and the counter is still running
C39_TwoStepsCounted == ev.tick /\ step_detect /\ step.stepCount >= 4

====
